---- MODULE Spec2Model ----
(***************************************************************************)
(* Transaction monitor of deblock: the lifecycle controller (Start, Stop, *)
(* IsRunning), the ingestion loop, processBlock, the block feed and the   *)
(* Redis-backed distributed lock, as state machines.                      *)
(***************************************************************************)
EXTENDS Integers, Sequences, FiniteSets, TLC

\* ---------------------------------------------------------------- bounds
\* monitor contexts one instance creates (Start calls that pass the check)
MaxCtx == 2
\* blocks the feed delivers to one instance
MaxBlocks == 2
\* transactions in one block
MaxTx == 2
\* addresses in one AddAddresses or RemoveAddresses call
MaxBatch == 2
MaxLocks == 2

\* ------------------------------------------------------------ value sets
Inst == {1, 2}
Threads == {"t1", "t2"}
Ctx == 1..MaxCtx
Addr == {"a1", "a2"}
Hashes == {"h1", "h2"}

\* blockchain.Transaction: the fields processBlock reads for relevance
Transaction == [Source : Addr, Destination : Addr]

\* sequences over S of length 0..n
RECURSIVE SeqsUpTo(_, _)
SeqsUpTo(S, n) ==
    IF n = 0 THEN {<<>>}
    ELSE LET shorter == SeqsUpTo(S, n - 1)
         IN  shorter \cup {Append(s, x) : s \in {q \in shorter : Len(q) = n - 1}, x \in S}

\* blockchain.Block: hash and ordered transactions
Block == [Hash : Hashes, Transactions : SeqsUpTo(Transaction, MaxTx)]

NoBlock == [Hash |-> "", Transactions |-> <<>>]

\* the blocks the feed of the lifecycle specification delivers
LifeBlocks ==
    {[Hash |-> "h1",
      Transactions |-> <<[Source |-> "a1", Destination |-> "a2"]>>]}

\* the blocks the feeds of the multi-instance specification deliver
MultiBlocks ==
    {[Hash |-> "h1",
      Transactions |-> <<[Source |-> "a1", Destination |-> "a2"]>>]}

\* fmt.Sprintf("block_lock_%s", block.Hash)
LockKey(hash) == <<"block_lock_", hash>>

Keys == {LockKey(h) : h \in Hashes}

\* pubsub.TopicTransaction
TopicTransaction == "transaction"

\* the value redsync stores under a key: one per mutex (instance, loop)
NoTok == <<0, 0>>
NoMutex == [key |-> <<>>, tok |-> NoTok]

VARIABLES
    isRunning,    \* [Inst -> BOOLEAN]            txMonitorService.isRunning
    cancelFunc,   \* [Inst -> 0..MaxCtx]          stored cancel handle, 0 = nil
    wg,           \* [Inst -> Nat]                drain barrier counter
    mu,           \* [Inst -> Threads \cup {""}]  write holder of m.mu
    nctx,         \* [Inst -> 0..MaxCtx]          monitor contexts created
    ctxDone,      \* [Inst -> SUBSET Ctx]         cancelled or expired contexts
    pc,           \* [Inst -> [Threads -> STRING]] position of each caller
    myCtx,        \* [Inst -> [Threads -> 0..MaxCtx]] monitorCtx local of Start
    loop,         \* [Inst -> [Ctx -> record]]    ingestion goroutine per context
    feed,         \* [Inst -> [Ctx -> STRING]]    feed goroutine per subscription
    blockChan,    \* [Inst -> [Ctx -> Seq(Block)]] buffered block channel (cap 1)
    errChan,      \* [Inst -> [Ctx -> 0..1]]      buffered error channel (cap 1)
    delivered,    \* [Inst -> Nat]                blocks the feed has sent
    watchedAddresses, \* [Inst -> SUBSET Addr]    inMemoryAddressWatcher map keys
    redis,        \* [Keys -> token]              value stored under each lock key
    lmutex,       \* [Inst -> mutex record]       redsyncLock.mutex
    calls,        \* [Inst -> [Ctx -> Seq(record)]] collaborator calls of the current processBlock
    published,    \* [Inst -> SUBSET (Hashes \X Nat)] transactions handed to Publish
    startRet,     \* [Inst -> BOOLEAN]            a Start has returned and no Stop has begun since
    drainOwner,   \* [Inst -> [Ctx -> Threads \cup {""}]] Stop that cancelled while this processBlock ran
    lastRet,      \* [Inst -> record]            the lifecycle call that returned in the last step
    wmu,          \* [Inst -> record]            inMemoryAddressWatcher.mu: write holder and read holders
    wcall,        \* [Inst -> [Clients -> record]] the watcher call each client is in, and its result
    wlast,        \* [Inst -> [Addr -> STRING]]  the last returned AddAddresses/RemoveAddresses naming each address
    pay,          \* record                      one processBlock run with full transactions and its Publish arguments
    http,         \* [Reqs -> record]            the start and stop HTTP requests and their handlers
    lk,           \* [Inst -> record]            the Lock or Unlock call in progress on each redsyncLock, and its result
    sub,          \* record                      one SubscribeToBlocks call: its channels and its goroutine
    srv,          \* record                      StartServer: its position and the calls it has made
    startCtx      \* [Inst -> record]           parent of each monitor context; Start calls whose ctx argument is done

vars == <<isRunning, cancelFunc, wg, mu, nctx, ctxDone, pc, myCtx, loop, feed,
          blockChan, errChan, delivered, watchedAddresses, redis, lmutex,
          calls, published, startRet, drainOwner, lastRet, wmu, wcall, wlast,
          pay, http, lk, sub, srv, startCtx>>

\* the state outside the monitor and the address watcher
extVars == <<pay, http, lk, sub, srv, startCtx>>

\* the lifecycle call that returned in the step just taken, if any: its caller
\* and which return it was
NoRet == [t |-> "", op |-> ""]
Ret(t, op) == [t |-> t, op |-> op]

\* a step in which no lifecycle call returns
NoReturn == lastRet' = [i \in Inst |-> NoRet]

\* a step in which the call of t on instance i returns
Returns(i, t, op) == lastRet' = [j \in Inst |-> IF j = i THEN Ret(t, op) ELSE NoRet]

\* callers of the address watcher (HTTP handlers, configuration loading)
Clients == {"k1", "k2"}

\* sync.RWMutex of the watcher with no holder
NoHolder == [w |-> "", r |-> {}]

\* a client that is in no watcher call and has no result
NoCall == [pc |-> "idle", op |-> "none", args |-> <<>>, idx |-> 0, pre |-> {},
           ret |-> FALSE, list |-> {}, inflight |-> {}, seen |-> "none",
           slice |-> <<>>, named |-> {}]

\* the contexts of the Start calls: the parent each monitor context was derived
\* from, and the monitor contexts whose Start was given a context that is done
NoStartCtx == [parent |-> [c \in Ctx |-> "none"], done |-> {}]

\* Start that derives the monitor context from the context it was given
MonitorParentIsCallerCtx == "ctx"

\* Start, line 61: the monitor context is derived from context.Background()
MonitorParent == "Background"

\* no processBlock run for the payload
NoPay == [pc |-> "idle", txs |-> <<>>, idx |-> 0, log |-> <<>>]

\* HTTP requests in flight at one time
Reqs == {"r1", "r2"}

\* a request slot with no request
NoRequest == [pc |-> "idle", kind |-> "none", calls |-> <<>>, err |-> "none", code |-> 0, body |-> {}]

\* a redsyncLock on which no call is in progress and none has returned
NoLockCall ==
    [pc |-> "idle", op |-> "none", key |-> <<>>, live |-> TRUE, n |-> 0,
     res |-> "none", released |-> FALSE, pre |-> NoTok, freed |-> NoTok,
     lastLock |-> "none", unlocked |-> {}]

\* SubscribeToBlocks not called
NoSub ==
    [pc |-> "none", out |-> <<>>, errC |-> <<>>, outClosed |-> 0, errClosed |-> 0,
     ctxDone |-> FALSE, subErr |-> FALSE, headers |-> 0, blk |-> 0, lateSend |-> FALSE,
     recv |-> <<>>]

\* StartServer not called
NoServer == [pc |-> "none", log |-> <<>>]

\* loop positions
InProcessBlock == {"lock", "tx", "publish", "unlock"}
Exited == {"exit_ctx", "exit_err", "exit_closed"}
Alive == {"select", "recv", "done"} \cup InProcessBlock

NoLoop == [pc |-> "none", blk |-> NoBlock, idx |-> 0, ret |-> "none"]

InitWith(W) ==
    /\ isRunning = [i \in Inst |-> FALSE]
    /\ cancelFunc = [i \in Inst |-> 0]
    /\ wg = [i \in Inst |-> 0]
    /\ mu = [i \in Inst |-> ""]
    /\ nctx = [i \in Inst |-> 0]
    /\ ctxDone = [i \in Inst |-> {}]
    /\ pc = [i \in Inst |-> [t \in Threads |-> "idle"]]
    /\ myCtx = [i \in Inst |-> [t \in Threads |-> 0]]
    /\ loop = [i \in Inst |-> [c \in Ctx |-> NoLoop]]
    /\ feed = [i \in Inst |-> [c \in Ctx |-> "none"]]
    /\ blockChan = [i \in Inst |-> [c \in Ctx |-> <<>>]]
    /\ errChan = [i \in Inst |-> [c \in Ctx |-> 0]]
    /\ delivered = [i \in Inst |-> 0]
    /\ watchedAddresses \in {[i \in Inst |-> w] : w \in W}
    /\ redis = [k \in Keys |-> NoTok]
    /\ lmutex = [i \in Inst |-> NoMutex]
    /\ calls = [i \in Inst |-> [c \in Ctx |-> <<>>]]
    /\ published = [i \in Inst |-> {}]
    /\ startRet = [i \in Inst |-> FALSE]
    /\ drainOwner = [i \in Inst |-> [c \in Ctx |-> ""]]
    /\ lastRet = [i \in Inst |-> NoRet]
    /\ wmu = [i \in Inst |-> NoHolder]
    /\ wcall = [i \in Inst |-> [k \in Clients |-> NoCall]]
    /\ wlast = [i \in Inst |-> [a \in Addr |-> "none"]]
    /\ pay = NoPay
    /\ http = [r \in Reqs |-> NoRequest]
    /\ lk = [i \in Inst |-> NoLockCall]
    /\ sub = NoSub
    /\ srv = NoServer
    /\ startCtx = [i \in Inst |-> NoStartCtx]

\* NewTxMonitorService; the watched set comes from the configuration
Init == InitWith({{"a1"}})

\* ------------------------------------------------------------------ Start
\* StartCheck without the isRunning test of line 55
StartCheckBlind(i, t) ==
    /\ pc[i][t] = "idle"
    /\ nctx[i] < MaxCtx
    /\ nctx' = [nctx EXCEPT ![i] = @ + 1]
    /\ myCtx' = [myCtx EXCEPT ![i][t] = nctx[i] + 1]
    /\ startCtx' = [startCtx EXCEPT ![i].parent[nctx[i] + 1] = MonitorParent]
    /\ pc' = [pc EXCEPT ![i][t] = "s_set"]
    /\ NoReturn
    /\ UNCHANGED <<isRunning, cancelFunc, wg, mu, ctxDone, loop, feed, blockChan,
                   errChan, delivered, watchedAddresses, redis, lmutex, calls,
                   published, drainOwner, startRet, wmu, wcall, wlast,
                   pay, http, lk, sub, srv>>

\* StartCheck that starts again when the loop of the stored handle has exited
StartCheckResubscribes(i, t) ==
    /\ pc[i][t] = "idle"
    /\ IF /\ isRunning[i]
          /\ ~(cancelFunc[i] # 0 /\ loop[i][cancelFunc[i]].pc \in Exited)
       THEN /\ Returns(i, t, "start_noop")
            /\ startRet' = [startRet EXCEPT ![i] = TRUE]
            /\ UNCHANGED <<nctx, myCtx, pc, startCtx>>
       ELSE /\ nctx[i] < MaxCtx
            /\ nctx' = [nctx EXCEPT ![i] = @ + 1]
            /\ myCtx' = [myCtx EXCEPT ![i][t] = nctx[i] + 1]
            /\ startCtx' = [startCtx EXCEPT ![i].parent[nctx[i] + 1] = MonitorParent]
            /\ pc' = [pc EXCEPT ![i][t] = "s_set"]
            /\ NoReturn
            /\ UNCHANGED startRet
    /\ UNCHANGED <<isRunning, cancelFunc, wg, mu, ctxDone, loop, feed, blockChan,
                   errChan, delivered, watchedAddresses, redis, lmutex, calls,
                   published, drainOwner, wmu, wcall, wlast,
                   pay, http, lk, sub, srv>>

\* Start, lines 55-61: the unlocked read of isRunning (return nil when set),
\* then the new context
StartCheck(i, t) ==
    /\ pc[i][t] = "idle"
    /\ IF isRunning[i]
       THEN /\ Returns(i, t, "start_noop")
            /\ startRet' = [startRet EXCEPT ![i] = TRUE]
            /\ UNCHANGED <<nctx, myCtx, pc, startCtx>>
       ELSE /\ nctx[i] < MaxCtx
            /\ nctx' = [nctx EXCEPT ![i] = @ + 1]
            /\ myCtx' = [myCtx EXCEPT ![i][t] = nctx[i] + 1]
            /\ startCtx' = [startCtx EXCEPT ![i].parent[nctx[i] + 1] = MonitorParent]
            /\ pc' = [pc EXCEPT ![i][t] = "s_set"]
            /\ NoReturn
            /\ UNCHANGED startRet
    /\ UNCHANGED <<isRunning, cancelFunc, wg, mu, ctxDone, loop, feed, blockChan,
                   errChan, delivered, watchedAddresses, redis, lmutex, calls,
                   published, drainOwner, wmu, wcall, wlast,
                   pay, http, lk, sub, srv>>

\* Start, lines 62-65: under m.mu, store the cancel handle and set the flag
StartSet(i, t) ==
    /\ pc[i][t] = "s_set"
    /\ mu[i] = ""
    /\ cancelFunc' = [cancelFunc EXCEPT ![i] = myCtx[i][t]]
    /\ isRunning' = [isRunning EXCEPT ![i] = TRUE]
    /\ pc' = [pc EXCEPT ![i][t] = "s_sub"]
    /\ NoReturn
    /\ UNCHANGED <<wg, mu, nctx, ctxDone, myCtx, loop, feed, blockChan, errChan,
                   delivered, watchedAddresses, redis, lmutex, calls, published,
                   startRet, drainOwner, wmu, wcall, wlast, extVars>>

\* EthereumClient.SubscribeToBlocks: the subscription fails at once (the error
\* is buffered and both channels are closed) or the feed goroutine starts
SubscribeToBlocks(i, c, ok) ==
    /\ feed' = [feed EXCEPT ![i][c] = IF ok THEN "run" ELSE "closed"]
    /\ errChan' = [errChan EXCEPT ![i][c] = IF ok THEN 0 ELSE 1]
    /\ blockChan' = [blockChan EXCEPT ![i][c] = <<>>]

\* StartSubscribe that returns an error to the caller when the subscription fails
StartSubscribeFails(i, t) ==
    /\ pc[i][t] = "s_sub"
    /\ \E ok \in BOOLEAN :
          /\ SubscribeToBlocks(i, myCtx[i][t], ok)
          /\ IF ok
             THEN /\ pc' = [pc EXCEPT ![i][t] = "s_go"]
                  /\ NoReturn
                  /\ UNCHANGED myCtx
             ELSE /\ pc' = [pc EXCEPT ![i][t] = "idle"]
                  /\ myCtx' = [myCtx EXCEPT ![i][t] = 0]
                  /\ Returns(i, t, "start_err")
    /\ UNCHANGED <<isRunning, cancelFunc, wg, mu, nctx, ctxDone, loop,
                   delivered, watchedAddresses, redis, lmutex, calls, published,
                   startRet, drainOwner, wmu, wcall, wlast, extVars>>

\* Start, line 68
StartSubscribe(i, t) ==
    /\ pc[i][t] = "s_sub"
    /\ \E ok \in BOOLEAN : SubscribeToBlocks(i, myCtx[i][t], ok)
    /\ pc' = [pc EXCEPT ![i][t] = "s_go"]
    /\ NoReturn
    /\ UNCHANGED <<isRunning, cancelFunc, wg, mu, nctx, ctxDone, myCtx, loop,
                   delivered, watchedAddresses, redis, lmutex, calls, published,
                   startRet, drainOwner, wmu, wcall, wlast, extVars>>

\* Start, lines 75-117: spawn the ingestion goroutine and return nil
StartSpawn(i, t) ==
    /\ pc[i][t] = "s_go"
    /\ loop' = [loop EXCEPT ![i][myCtx[i][t]] = [NoLoop EXCEPT !.pc = "select"]]
    /\ pc' = [pc EXCEPT ![i][t] = "idle"]
    /\ myCtx' = [myCtx EXCEPT ![i][t] = 0]
    /\ Returns(i, t, "start_done")
    /\ startRet' = [startRet EXCEPT ![i] = TRUE]
    /\ UNCHANGED <<isRunning, cancelFunc, wg, mu, nctx, ctxDone, feed, blockChan,
                   errChan, delivered, watchedAddresses, redis, lmutex, calls,
                   published, drainOwner, wmu, wcall, wlast, extVars>>

\* ------------------------------------------------------------------- Stop
\* StopCancel without the assignment of line 187: the flag is left set
StopCancelKeepsFlag(i, t) ==
    /\ pc[i][t] = "idle"
    /\ mu[i] = ""
    /\ mu' = [mu EXCEPT ![i] = t]
    /\ ctxDone' = [ctxDone EXCEPT ![i] =
                      IF cancelFunc[i] # 0 THEN @ \cup {cancelFunc[i]} ELSE @]
    /\ drainOwner' = [drainOwner EXCEPT ![i] =
                         [c \in Ctx |->
                            IF cancelFunc[i] # 0 /\ loop[i][c].pc \in InProcessBlock
                            THEN t ELSE @[c]]]
    /\ startRet' = [startRet EXCEPT ![i] = FALSE]
    /\ pc' = [pc EXCEPT ![i][t] = "stop_wait"]
    /\ NoReturn
    /\ UNCHANGED <<isRunning, cancelFunc, wg, nctx, myCtx, loop, feed, blockChan,
                   errChan, delivered, watchedAddresses, redis, lmutex, calls,
                   published, wmu, wcall, wlast, extVars>>

\* Stop, lines 184-191: take m.mu, clear the flag, invoke the stored handle
StopCancel(i, t) ==
    /\ pc[i][t] = "idle"
    /\ mu[i] = ""
    /\ mu' = [mu EXCEPT ![i] = t]
    /\ isRunning' = [isRunning EXCEPT ![i] = FALSE]
    /\ ctxDone' = [ctxDone EXCEPT ![i] =
                      IF cancelFunc[i] # 0 THEN @ \cup {cancelFunc[i]} ELSE @]
    /\ drainOwner' = [drainOwner EXCEPT ![i] =
                         [c \in Ctx |->
                            IF cancelFunc[i] # 0 /\ loop[i][c].pc \in InProcessBlock
                            THEN t ELSE @[c]]]
    /\ startRet' = [startRet EXCEPT ![i] = FALSE]
    /\ pc' = [pc EXCEPT ![i][t] = "stop_wait"]
    /\ NoReturn
    /\ UNCHANGED <<cancelFunc, wg, nctx, myCtx, loop, feed, blockChan, errChan,
                   delivered, watchedAddresses, redis, lmutex, calls, published,
                   wmu, wcall, wlast, extVars>>

\* StopWait without the wg.Wait() of line 193
StopWaitNoDrain(i, t) ==
    /\ pc[i][t] = "stop_wait"
    /\ mu' = [mu EXCEPT ![i] = ""]
    /\ pc' = [pc EXCEPT ![i][t] = "idle"]
    /\ Returns(i, t, "stop_done")
    /\ UNCHANGED <<isRunning, cancelFunc, wg, nctx, ctxDone, myCtx, loop, feed,
                   blockChan, errChan, delivered, watchedAddresses, redis, lmutex,
                   calls, published, startRet, drainOwner, wmu, wcall, wlast,
                   extVars>>

\* Stop, lines 193-195: wg.Wait(), then the deferred Unlock and return nil
StopWait(i, t) ==
    /\ pc[i][t] = "stop_wait"
    /\ wg[i] = 0
    /\ mu' = [mu EXCEPT ![i] = ""]
    /\ pc' = [pc EXCEPT ![i][t] = "idle"]
    /\ Returns(i, t, "stop_done")
    /\ UNCHANGED <<isRunning, cancelFunc, wg, nctx, ctxDone, myCtx, loop, feed,
                   blockChan, errChan, delivered, watchedAddresses, redis, lmutex,
                   calls, published, startRet, drainOwner, wmu, wcall, wlast,
                   extVars>>

\* -------------------------------------------------------------- IsRunning
\* IsRunning that reads the flag without taking the read lock
IsRunningNoLock(i, t) ==
    /\ pc[i][t] = "idle"
    /\ Returns(i, t, IF isRunning[i] THEN "running_true" ELSE "running_false")
    /\ UNCHANGED <<isRunning, cancelFunc, wg, mu, nctx, ctxDone, pc, myCtx, loop,
                   feed, blockChan, errChan, delivered, watchedAddresses, redis,
                   lmutex, calls, published, startRet, drainOwner,
                   wmu, wcall, wlast, extVars>>

\* IsRunning, lines 198-202: read the flag under the read lock
IsRunning(i, t) ==
    /\ pc[i][t] = "idle"
    /\ mu[i] = ""
    /\ Returns(i, t, IF isRunning[i] THEN "running_true" ELSE "running_false")
    /\ UNCHANGED <<isRunning, cancelFunc, wg, mu, nctx, ctxDone, pc, myCtx, loop,
                   feed, blockChan, errChan, delivered, watchedAddresses, redis,
                   lmutex, calls, published, startRet, drainOwner,
                   wmu, wcall, wlast, extVars>>

\* ------------------------------------------------------------ block feed
\* SubscribeToBlocks goroutine, lines 322-339 of the Ethereum client: a block
\* is sent when the one-slot buffer has room (also when the context is
\* already done: both cases of the inner select are then ready)
FeedDeliver(i, c, b) ==
    /\ feed[i][c] = "run"
    /\ Len(blockChan[i][c]) = 0
    /\ delivered[i] < MaxBlocks
    /\ blockChan' = [blockChan EXCEPT ![i][c] = <<b>>]
    /\ delivered' = [delivered EXCEPT ![i] = @ + 1]
    /\ NoReturn
    /\ UNCHANGED <<isRunning, cancelFunc, wg, mu, nctx, ctxDone, pc, myCtx, loop,
                   feed, errChan, watchedAddresses, redis, lmutex, calls,
                   published, startRet, drainOwner, wmu, wcall, wlast, extVars>>

\* SubscribeToBlocks goroutine, lines 319-321: a subscription error is
\* buffered, then both channels are closed
FeedError(i, c) ==
    /\ feed[i][c] = "run"
    /\ errChan' = [errChan EXCEPT ![i][c] = 1]
    /\ feed' = [feed EXCEPT ![i][c] = "closed"]
    /\ NoReturn
    /\ UNCHANGED <<isRunning, cancelFunc, wg, mu, nctx, ctxDone, pc, myCtx, loop,
                   blockChan, delivered, watchedAddresses, redis, lmutex, calls,
                   published, startRet, drainOwner, wmu, wcall, wlast, extVars>>

\* SubscribeToBlocks goroutine, lines 317-318: the context is done, both
\* channels are closed
FeedCtxDone(i, c) ==
    /\ feed[i][c] = "run"
    /\ c \in ctxDone[i]
    /\ feed' = [feed EXCEPT ![i][c] = "closed"]
    /\ NoReturn
    /\ UNCHANGED <<isRunning, cancelFunc, wg, mu, nctx, ctxDone, pc, myCtx, loop,
                   blockChan, errChan, delivered, watchedAddresses, redis, lmutex,
                   calls, published, startRet, drainOwner, wmu, wcall, wlast,
                   extVars>>

\* context.WithTimeout(context.Background(), 24*time.Hour): the ceiling expires
CtxTimeout(i, c) ==
    /\ c <= nctx[i]
    /\ c \notin ctxDone[i]
    /\ ctxDone' = [ctxDone EXCEPT ![i] = @ \cup {c}]
    /\ NoReturn
    /\ UNCHANGED <<isRunning, cancelFunc, wg, mu, nctx, pc, myCtx, loop, feed,
                   blockChan, errChan, delivered, watchedAddresses, redis, lmutex,
                   calls, published, startRet, drainOwner, wmu, wcall, wlast,
                   extVars>>

\* the ctx argument of the Start call that created monitor context c is
\* cancelled or expires (the HTTP request that carried it ends); a context
\* derived from it is done with it
StartCtxDone(i, c) ==
    /\ c <= nctx[i]
    /\ c \notin startCtx[i].done
    /\ startCtx' = [startCtx EXCEPT ![i].done = @ \cup {c}]
    /\ ctxDone' = [ctxDone EXCEPT ![i] =
                      IF startCtx[i].parent[c] = "ctx" THEN @ \cup {c} ELSE @]
    /\ NoReturn
    /\ UNCHANGED <<isRunning, cancelFunc, wg, mu, nctx, pc, myCtx, loop, feed,
                   blockChan, errChan, delivered, watchedAddresses, redis, lmutex,
                   calls, published, startRet, drainOwner, wmu, wcall, wlast,
                   pay, http, lk, sub, srv>>

\* --------------------------------------------------------- ingestion loop
\* select, case <-monitorCtx.Done()
LoopCancelled(i, c) ==
    /\ loop[i][c].pc = "select"
    /\ c \in ctxDone[i]
    /\ loop' = [loop EXCEPT ![i][c].pc = "exit_ctx"]
    /\ NoReturn
    /\ UNCHANGED <<isRunning, cancelFunc, wg, mu, nctx, ctxDone, pc, myCtx, feed,
                   blockChan, errChan, delivered, watchedAddresses, redis, lmutex,
                   calls, published, startRet, drainOwner, wmu, wcall, wlast,
                   extVars>>

\* LoopErr that logs the error and stays in the loop
LoopErrContinues(i, c) ==
    /\ loop[i][c].pc = "select"
    /\ errChan[i][c] > 0 \/ feed[i][c] = "closed"
    /\ errChan' = [errChan EXCEPT ![i][c] = 0]
    /\ NoReturn
    /\ UNCHANGED <<isRunning, cancelFunc, wg, mu, nctx, ctxDone, pc, myCtx, loop,
                   feed, blockChan, delivered, watchedAddresses, redis, lmutex,
                   calls, published, startRet, drainOwner, wmu, wcall, wlast,
                   extVars>>

\* select, case err := <-errChan (a buffered error, or nil from the closed channel)
LoopErr(i, c) ==
    /\ loop[i][c].pc = "select"
    /\ errChan[i][c] > 0 \/ feed[i][c] = "closed"
    /\ errChan' = [errChan EXCEPT ![i][c] = 0]
    /\ loop' = [loop EXCEPT ![i][c].pc = "exit_err"]
    /\ NoReturn
    /\ UNCHANGED <<isRunning, cancelFunc, wg, mu, nctx, ctxDone, pc, myCtx, feed,
                   blockChan, delivered, watchedAddresses, redis, lmutex, calls,
                   published, startRet, drainOwner, wmu, wcall, wlast, extVars>>

\* select, case block, ok := <-blockChan with ok
LoopRecv(i, c) ==
    /\ loop[i][c].pc = "select"
    /\ Len(blockChan[i][c]) > 0
    /\ loop' = [loop EXCEPT ![i][c].pc = "recv", ![i][c].blk = Head(blockChan[i][c])]
    /\ blockChan' = [blockChan EXCEPT ![i][c] = Tail(@)]
    /\ NoReturn
    /\ UNCHANGED <<isRunning, cancelFunc, wg, mu, nctx, ctxDone, pc, myCtx, feed,
                   errChan, delivered, watchedAddresses, redis, lmutex, calls,
                   published, startRet, drainOwner, wmu, wcall, wlast, extVars>>

\* select, case block, ok := <-blockChan with !ok
LoopChanClosed(i, c) ==
    /\ loop[i][c].pc = "select"
    /\ feed[i][c] = "closed"
    /\ Len(blockChan[i][c]) = 0
    /\ loop' = [loop EXCEPT ![i][c].pc = "exit_closed"]
    /\ NoReturn
    /\ UNCHANGED <<isRunning, cancelFunc, wg, mu, nctx, ctxDone, pc, myCtx, feed,
                   blockChan, errChan, delivered, watchedAddresses, redis, lmutex,
                   calls, published, startRet, drainOwner, wmu, wcall, wlast,
                   extVars>>

\* the mutex redsyncLock.Lock creates for a key
NewMutex(i, c, key) == [key |-> key, tok |-> <<i, c>>]

\* lines 105-106 and processBlock lines 126-127, redsyncLock.Lock lines 32-33:
\* wg.Add(1), processBlock is entered, Lock stores the new mutex in l.mutex
\* and waits in LockContext
LoopBegin(i, c) ==
    /\ loop[i][c].pc = "recv"
    /\ wg' = [wg EXCEPT ![i] = @ + 1]
    /\ lmutex' = [lmutex EXCEPT ![i] = NewMutex(i, c, LockKey(loop[i][c].blk.Hash))]
    /\ calls' = [calls EXCEPT ![i][c] =
                    <<[op |-> "Lock", key |-> LockKey(loop[i][c].blk.Hash),
                       idx |-> 0, res |-> "pending"]>>]
    /\ loop' = [loop EXCEPT ![i][c].pc = "lock"]
    /\ NoReturn
    /\ UNCHANGED <<isRunning, cancelFunc, mu, nctx, ctxDone, pc, myCtx, feed,
                   blockChan, errChan, delivered, watchedAddresses, redis,
                   published, startRet, drainOwner, wmu, wcall, wlast, extVars>>

\* the last call of a log with its result filled in
SetRes(log, r) == [log EXCEPT ![Len(log)].res = r]

\* mutex.LockContext returns nil: the key is free and the context is live
LockOk(i, c) ==
    /\ loop[i][c].pc = "lock"
    /\ c \notin ctxDone[i]
    /\ redis[LockKey(loop[i][c].blk.Hash)] = NoTok
    /\ redis' = [redis EXCEPT ![LockKey(loop[i][c].blk.Hash)] = <<i, c>>]
    /\ calls' = [calls EXCEPT ![i][c] = SetRes(@, "ok")]
    /\ loop' = [loop EXCEPT ![i][c].pc = "tx", ![i][c].idx = 1]
    /\ NoReturn
    /\ UNCHANGED <<isRunning, cancelFunc, wg, mu, nctx, ctxDone, pc, myCtx, feed,
                   blockChan, errChan, delivered, watchedAddresses, lmutex,
                   published, startRet, drainOwner, wmu, wcall, wlast, extVars>>

\* LockFail without the return of line 129: the block is processed anyway
LockFailProceeds(i, c) ==
    /\ loop[i][c].pc = "lock"
    /\ calls' = [calls EXCEPT ![i][c] = SetRes(@, "err")]
    /\ loop' = [loop EXCEPT ![i][c].pc = "tx", ![i][c].idx = 1]
    /\ NoReturn
    /\ UNCHANGED <<isRunning, cancelFunc, wg, mu, nctx, ctxDone, pc, myCtx, feed,
                   blockChan, errChan, delivered, watchedAddresses, redis, lmutex,
                   published, startRet, drainOwner, wmu, wcall, wlast, extVars>>

\* mutex.LockContext returns an error (key held until the tries run out,
\* context done, Redis unreachable); processBlock lines 127-130 return nil
LockFail(i, c) ==
    /\ loop[i][c].pc = "lock"
    /\ calls' = [calls EXCEPT ![i][c] = SetRes(@, "err")]
    /\ loop' = [loop EXCEPT ![i][c].pc = "done", ![i][c].ret = "nil"]
    /\ drainOwner' = [drainOwner EXCEPT ![i][c] = ""]
    /\ NoReturn
    /\ UNCHANGED <<isRunning, cancelFunc, wg, mu, nctx, ctxDone, pc, myCtx, feed,
                   blockChan, errChan, delivered, watchedAddresses, redis, lmutex,
                   published, startRet, wmu, wcall, wlast, extVars>>

\* inMemoryAddressWatcher.IsWatched
IsWatched(i, a) == a \in watchedAddresses[i]

\* isTransactionRelevant without the destination test
isTransactionRelevantSourceOnly(i, tx) == IsWatched(i, tx.Source)

\* isTransactionRelevant, line 179
isTransactionRelevant(i, tx) == IsWatched(i, tx.Source) \/ IsWatched(i, tx.Destination)

\* ProcessTx that leaves the range loop once the context is done
ProcessTxObservesCancel(i, c) ==
    /\ loop[i][c].pc = "tx"
    /\ LET l == loop[i][c]
       IN  IF l.idx > Len(l.blk.Transactions) \/ c \in ctxDone[i]
           THEN /\ loop' = [loop EXCEPT ![i][c].pc = "unlock"]
                /\ UNCHANGED <<calls, published>>
           ELSE IF ~isTransactionRelevant(i, l.blk.Transactions[l.idx])
           THEN /\ loop' = [loop EXCEPT ![i][c].idx = @ + 1]
                /\ UNCHANGED <<calls, published>>
           ELSE /\ loop' = [loop EXCEPT ![i][c].pc = "publish"]
                /\ calls' = [calls EXCEPT ![i][c] =
                                Append(@, [op |-> "Publish", key |-> <<TopicTransaction>>,
                                           idx |-> l.idx, res |-> "pending"])]
                /\ published' = [published EXCEPT ![i] = @ \cup {<<l.blk.Hash, l.idx>>}]
    /\ NoReturn
    /\ UNCHANGED <<isRunning, cancelFunc, wg, mu, nctx, ctxDone, pc, myCtx, feed,
                   blockChan, errChan, delivered, watchedAddresses, redis, lmutex,
                   startRet, drainOwner, wmu, wcall, wlast, extVars>>

\* processBlock lines 134-157: the range loop reaches the next transaction;
\* an irrelevant one is skipped, a relevant one is handed to Publish; past
\* the last one the function returns into the deferred Unlock
ProcessTx(i, c) ==
    /\ loop[i][c].pc = "tx"
    /\ LET l == loop[i][c]
       IN  IF l.idx > Len(l.blk.Transactions)
           THEN /\ loop' = [loop EXCEPT ![i][c].pc = "unlock"]
                /\ UNCHANGED <<calls, published>>
           ELSE IF ~isTransactionRelevant(i, l.blk.Transactions[l.idx])
           THEN /\ loop' = [loop EXCEPT ![i][c].idx = @ + 1]
                /\ UNCHANGED <<calls, published>>
           ELSE /\ loop' = [loop EXCEPT ![i][c].pc = "publish"]
                /\ calls' = [calls EXCEPT ![i][c] =
                                Append(@, [op |-> "Publish", key |-> <<TopicTransaction>>,
                                           idx |-> l.idx, res |-> "pending"])]
                /\ published' = [published EXCEPT ![i] = @ \cup {<<l.blk.Hash, l.idx>>}]
    /\ NoReturn
    /\ UNCHANGED <<isRunning, cancelFunc, wg, mu, nctx, ctxDone, pc, myCtx, feed,
                   blockChan, errChan, delivered, watchedAddresses, redis, lmutex,
                   startRet, drainOwner, wmu, wcall, wlast, extVars>>

\* PublishReturn that leaves the range loop on a Publish error
PublishReturnAborts(i, c, ok) ==
    /\ loop[i][c].pc = "publish"
    /\ calls' = [calls EXCEPT ![i][c] = SetRes(@, IF ok THEN "ok" ELSE "err")]
    /\ loop' = [loop EXCEPT ![i][c].pc = IF ok THEN "tx" ELSE "unlock",
                            ![i][c].idx = @ + 1]
    /\ NoReturn
    /\ UNCHANGED <<isRunning, cancelFunc, wg, mu, nctx, ctxDone, pc, myCtx, feed,
                   blockChan, errChan, delivered, watchedAddresses, redis, lmutex,
                   published, startRet, drainOwner, wmu, wcall, wlast, extVars>>

\* processBlock lines 157-162: Publish returns nil or an error, which is logged
PublishReturn(i, c, ok) ==
    /\ loop[i][c].pc = "publish"
    /\ calls' = [calls EXCEPT ![i][c] = SetRes(@, IF ok THEN "ok" ELSE "err")]
    /\ loop' = [loop EXCEPT ![i][c].pc = "tx", ![i][c].idx = @ + 1]
    /\ NoReturn
    /\ UNCHANGED <<isRunning, cancelFunc, wg, mu, nctx, ctxDone, pc, myCtx, feed,
                   blockChan, errChan, delivered, watchedAddresses, redis, lmutex,
                   published, startRet, drainOwner, wmu, wcall, wlast, extVars>>

\* redsyncLock.Unlock, line 40: l.mutex.UnlockContext(ctx) deletes the key of
\* the mutex stored last if it still holds that mutex's value; the key
\* argument is not used, and a done context makes the release fail
RedsyncUnlock(i, c) ==
    LET m == lmutex[i]
    IN  IF m # NoMutex /\ c \notin ctxDone[i] /\ redis[m.key] = m.tok
        THEN [redis EXCEPT ![m.key] = NoTok]
        ELSE redis

\* Unlock that is skipped once a call of the block has failed
UnlockUnlessPublishFailed(i, c) ==
    /\ loop[i][c].pc = "unlock"
    /\ LET failed == \E k \in 1..Len(calls[i][c]) : calls[i][c][k].res = "err"
       IN  /\ redis' = IF failed THEN redis ELSE RedsyncUnlock(i, c)
           /\ calls' = [calls EXCEPT ![i][c] =
                           IF failed THEN @
                           ELSE Append(@, [op |-> "Unlock",
                                           key |-> LockKey(loop[i][c].blk.Hash),
                                           idx |-> 0, res |-> "ok"])]
    /\ loop' = [loop EXCEPT ![i][c].pc = "done", ![i][c].ret = "nil"]
    /\ drainOwner' = [drainOwner EXCEPT ![i][c] = ""]
    /\ NoReturn
    /\ UNCHANGED <<isRunning, cancelFunc, wg, mu, nctx, ctxDone, pc, myCtx, feed,
                   blockChan, errChan, delivered, watchedAddresses, lmutex,
                   published, startRet, wmu, wcall, wlast, extVars>>

\* processBlock line 131 (deferred) and line 174: Unlock, then return nil
Unlock(i, c) ==
    /\ loop[i][c].pc = "unlock"
    /\ redis' = RedsyncUnlock(i, c)
    /\ calls' = [calls EXCEPT ![i][c] =
                    Append(@, [op |-> "Unlock", key |-> LockKey(loop[i][c].blk.Hash),
                               idx |-> 0, res |-> "ok"])]
    /\ loop' = [loop EXCEPT ![i][c].pc = "done", ![i][c].ret = "nil"]
    /\ drainOwner' = [drainOwner EXCEPT ![i][c] = ""]
    /\ NoReturn
    /\ UNCHANGED <<isRunning, cancelFunc, wg, mu, nctx, ctxDone, pc, myCtx, feed,
                   blockChan, errChan, delivered, watchedAddresses, lmutex,
                   published, startRet, wmu, wcall, wlast, extVars>>

\* LoopDone whose wg.Done() is skipped when processBlock's Lock had failed
LoopDoneOnlyAfterLock(i, c) ==
    /\ loop[i][c].pc = "done"
    /\ wg' = [wg EXCEPT ![i] = IF calls[i][c][1].res = "ok" THEN @ - 1 ELSE @]
    /\ calls' = [calls EXCEPT ![i][c] = <<>>]
    /\ loop' = [loop EXCEPT ![i][c] = [NoLoop EXCEPT !.pc = "select"]]
    /\ NoReturn
    /\ UNCHANGED <<isRunning, cancelFunc, mu, nctx, ctxDone, pc, myCtx, feed,
                   blockChan, errChan, delivered, watchedAddresses, redis, lmutex,
                   published, startRet, drainOwner, wmu, wcall, wlast, extVars>>

\* line 112: wg.Done(), back to the select
LoopDone(i, c) ==
    /\ loop[i][c].pc = "done"
    /\ wg' = [wg EXCEPT ![i] = @ - 1]
    /\ calls' = [calls EXCEPT ![i][c] = <<>>]
    /\ loop' = [loop EXCEPT ![i][c] = [NoLoop EXCEPT !.pc = "select"]]
    /\ NoReturn
    /\ UNCHANGED <<isRunning, cancelFunc, mu, nctx, ctxDone, pc, myCtx, feed,
                   blockChan, errChan, delivered, watchedAddresses, redis, lmutex,
                   published, startRet, drainOwner, wmu, wcall, wlast, extVars>>

\* the lease of a key runs out in Redis (redsync's default expiry; the code
\* never extends it)
LeaseExpire(k) ==
    /\ redis[k] # NoTok
    /\ redis' = [redis EXCEPT ![k] = NoTok]
    /\ NoReturn
    /\ UNCHANGED <<isRunning, cancelFunc, wg, mu, nctx, ctxDone, pc, myCtx, loop,
                   feed, blockChan, errChan, delivered, watchedAddresses, lmutex,
                   calls, published, startRet, drainOwner, wmu, wcall, wlast,
                   extVars>>

\* -------------------------------------------------------- address watcher
\* the address slices a caller passes
Batches == SeqsUpTo(Addr, MaxBatch)

\* the state of the monitor, which no watcher call touches
monitorVars == <<isRunning, cancelFunc, wg, mu, nctx, ctxDone, pc, myCtx, loop,
                 feed, blockChan, errChan, delivered, redis, lmutex, calls,
                 published, startRet, drainOwner, startCtx>>

\* the addresses of a slice
Elems(batch) == {batch[n] : n \in 1..Len(batch)}

\* a caller enters AddAddresses or RemoveAddresses and asks for w.mu.Lock()
WriteCall(i, k, op, batch) ==
    /\ wcall[i][k].pc = "idle"
    /\ wcall' = [wcall EXCEPT ![i][k] =
                    [NoCall EXCEPT !.pc = "w_lock", !.op = op, !.args = batch]]
    /\ NoReturn
    /\ UNCHANGED <<monitorVars, watchedAddresses, wmu, wlast, extVars>>

\* inMemoryAddressWatcher.AddAddresses, line 46
AddAddresses(i, k, batch) == WriteCall(i, k, "Add", batch)

\* inMemoryAddressWatcher.RemoveAddresses, line 54
RemoveAddresses(i, k, batch) == WriteCall(i, k, "Remove", batch)

\* WriteLock that goes on without holding w.mu
WriteLockNoMutex(i, k) ==
    /\ wcall[i][k].pc = "w_lock"
    /\ wcall' = [wcall EXCEPT ![i][k].pc = "w_loop", ![i][k].idx = 1,
                              ![i][k].pre = watchedAddresses[i]]
    /\ NoReturn
    /\ UNCHANGED <<monitorVars, watchedAddresses, wmu, wlast, extVars>>

\* lines 47 and 55: w.mu.Lock() is granted when nobody reads or writes
WriteLock(i, k) ==
    /\ wcall[i][k].pc = "w_lock"
    /\ wmu[i].w = "" /\ wmu[i].r = {}
    /\ wmu' = [wmu EXCEPT ![i].w = k]
    /\ wcall' = [wcall EXCEPT ![i][k].pc = "w_loop", ![i][k].idx = 1,
                              ![i][k].pre = watchedAddresses[i]]
    /\ NoReturn
    /\ UNCHANGED <<monitorVars, watchedAddresses, wlast, extVars>>

\* WriteStep whose delete empties the map
WriteStepClears(i, k) ==
    /\ wcall[i][k].pc = "w_loop"
    /\ wcall[i][k].idx <= Len(wcall[i][k].args)
    /\ LET a == wcall[i][k].args[wcall[i][k].idx]
       IN  watchedAddresses' = [watchedAddresses EXCEPT ![i] =
                                   IF wcall[i][k].op = "Add" THEN @ \cup {a} ELSE {}]
    /\ wcall' = [wcall EXCEPT ![i][k].idx = @ + 1]
    /\ NoReturn
    /\ UNCHANGED <<monitorVars, wmu, wlast, extVars>>

\* WriteStep whose add deletes an address that is already in the map
WriteStepAddToggles(i, k) ==
    /\ wcall[i][k].pc = "w_loop"
    /\ wcall[i][k].idx <= Len(wcall[i][k].args)
    /\ LET a == wcall[i][k].args[wcall[i][k].idx]
       IN  watchedAddresses' = [watchedAddresses EXCEPT ![i] =
                                   IF wcall[i][k].op = "Add" /\ a \notin @
                                   THEN @ \cup {a} ELSE @ \ {a}]
    /\ wcall' = [wcall EXCEPT ![i][k].idx = @ + 1]
    /\ NoReturn
    /\ UNCHANGED <<monitorVars, wmu, wlast, extVars>>

\* the range loops, lines 49-51 and 57-59: the next address of the slice is
\* set in the map or deleted from it
WriteStep(i, k) ==
    /\ wcall[i][k].pc = "w_loop"
    /\ wcall[i][k].idx <= Len(wcall[i][k].args)
    /\ LET a == wcall[i][k].args[wcall[i][k].idx]
       IN  watchedAddresses' = [watchedAddresses EXCEPT ![i] =
                                   IF wcall[i][k].op = "Add" THEN @ \cup {a} ELSE @ \ {a}]
    /\ wcall' = [wcall EXCEPT ![i][k].idx = @ + 1]
    /\ NoReturn
    /\ UNCHANGED <<monitorVars, wmu, wlast, extVars>>

\* the end of the range loop: the deferred w.mu.Unlock() of lines 48 and 56,
\* and the return
WriteReturn(i, k) ==
    /\ wcall[i][k].pc = "w_loop"
    /\ wcall[i][k].idx > Len(wcall[i][k].args)
    /\ wmu' = [wmu EXCEPT ![i].w = ""]
    /\ wlast' = [wlast EXCEPT ![i] =
                    [a \in Addr |-> IF a \in Elems(wcall[i][k].args)
                                    THEN wcall[i][k].op ELSE @[a]]]
    /\ wcall' = [wcall EXCEPT ![i][k] = NoCall]
    /\ NoReturn
    /\ UNCHANGED <<monitorVars, watchedAddresses, extVars>>

\* a caller enters IsWatched or GetWatchedAddresses and asks for w.mu.RLock()
ReadCall(i, k, op, args) ==
    /\ wcall[i][k].pc = "idle"
    /\ wcall' = [wcall EXCEPT ![i][k] =
                    [NoCall EXCEPT !.pc = "r_lock", !.op = op, !.args = args]]
    /\ NoReturn
    /\ UNCHANGED <<monitorVars, watchedAddresses, wmu, wlast, extVars>>

\* inMemoryAddressWatcher.IsWatched called by a client, line 40
IsWatchedCall(i, k, a) == ReadCall(i, k, "IsWatched", <<a>>)

\* inMemoryAddressWatcher.GetWatchedAddresses, line 62
GetWatchedAddresses(i, k) == ReadCall(i, k, "Get", <<>>)

\* lines 41 and 63: w.mu.RLock() is granted when nobody writes
ReadLock(i, k) ==
    /\ wcall[i][k].pc = "r_lock"
    /\ wmu[i].w = ""
    /\ wmu' = [wmu EXCEPT ![i].r = @ \cup {k}]
    /\ wcall' = [wcall EXCEPT ![i][k].pc = "r_read"]
    /\ NoReturn
    /\ UNCHANGED <<monitorVars, watchedAddresses, wlast, extVars>>

\* the write calls that have been entered and have not returned, each with
\* the membership it starts from
InFlight(i) ==
    {[op |-> wcall[i][k].op, args |-> wcall[i][k].args,
      pre |-> IF wcall[i][k].pc = "w_loop" THEN wcall[i][k].pre
              ELSE watchedAddresses[i]] :
        k \in {j \in Clients : wcall[i][j].pc \in {"w_lock", "w_loop"}}}

\* the slices a range over a map with keys S can build: every key once, in
\* any order
KeysInOrder(S) ==
    {q \in SeqsUpTo(S, Cardinality(S)) : Len(q) = Cardinality(S) /\ Elems(q) = S}

\* line 43, or lines 65-69 (the keys of the map, in the map's iteration
\* order; `list` is the set of the elements of the slice), then the deferred
\* w.mu.RUnlock() and the return
ReadReturn(i, k) ==
    /\ wcall[i][k].pc = "r_read"
    /\ wmu' = [wmu EXCEPT ![i].r = @ \ {k}]
    /\ \E q \in IF wcall[i][k].op = "Get" THEN KeysInOrder(watchedAddresses[i])
                 ELSE {<<>>} :
         wcall' = [wcall EXCEPT
                    ![i][k].slice = q,
                    ![i][k].named = {a \in Addr : wlast[i][a] = "Add"},
                    ![i][k].pc = "idle",
                    ![i][k].ret = IF wcall[i][k].op = "IsWatched"
                                  THEN IsWatched(i, wcall[i][k].args[1]) ELSE FALSE,
                    ![i][k].list = IF wcall[i][k].op = "Get"
                                   THEN watchedAddresses[i] ELSE {},
                    ![i][k].inflight = InFlight(i),
                    ![i][k].seen = IF wcall[i][k].op = "IsWatched"
                                   THEN wlast[i][wcall[i][k].args[1]] ELSE "none"]
    /\ NoReturn
    /\ UNCHANGED <<monitorVars, watchedAddresses, wlast, extVars>>

\* --------------------------------------------------------- specifications
\* one instance, two concurrent callers of Start, Stop and IsRunning
Next ==
    \/ \E t \in Threads : StartCheck(1, t)
    \/ \E t \in Threads : StartSet(1, t)
    \/ \E t \in Threads : StartSubscribe(1, t)
    \/ \E t \in Threads : StartSpawn(1, t)
    \/ \E t \in Threads : StopCancel(1, t)
    \/ \E t \in Threads : StopWait(1, t)
    \/ \E t \in Threads : IsRunning(1, t)
    \/ \E c \in Ctx, b \in LifeBlocks : FeedDeliver(1, c, b)
    \/ \E c \in Ctx : FeedError(1, c)
    \/ \E c \in Ctx : FeedCtxDone(1, c)
    \/ \E c \in Ctx : CtxTimeout(1, c)
    \/ \E c \in Ctx : LoopCancelled(1, c)
    \/ \E c \in Ctx : LoopErr(1, c)
    \/ \E c \in Ctx : LoopRecv(1, c)
    \/ \E c \in Ctx : LoopChanClosed(1, c)
    \/ \E c \in Ctx : LoopBegin(1, c)
    \/ \E c \in Ctx : LockOk(1, c)
    \/ \E c \in Ctx : LockFail(1, c)
    \/ \E c \in Ctx : ProcessTx(1, c)
    \/ \E c \in Ctx, ok \in BOOLEAN : PublishReturn(1, c, ok)
    \/ \E c \in Ctx : Unlock(1, c)
    \/ \E c \in Ctx : LoopDone(1, c)
    \/ \E k \in Keys : LeaseExpire(k)

Spec == Init /\ [][Next]_vars

\* one instance, one caller, blocks of every shape and every watched set
InitProc == InitWith(SUBSET Addr)

NextProc ==
    \/ StartCheck(1, "t1")
    \/ StartSet(1, "t1")
    \/ StartSubscribe(1, "t1")
    \/ StartSpawn(1, "t1")
    \/ \E c \in Ctx, b \in Block : FeedDeliver(1, c, b)
    \/ \E c \in Ctx : FeedCtxDone(1, c)
    \/ \E c \in Ctx : CtxTimeout(1, c)
    \/ \E c \in Ctx : LoopCancelled(1, c)
    \/ \E c \in Ctx : LoopErr(1, c)
    \/ \E c \in Ctx : LoopRecv(1, c)
    \/ \E c \in Ctx : LoopChanClosed(1, c)
    \/ \E c \in Ctx : LoopBegin(1, c)
    \/ \E c \in Ctx : LockOk(1, c)
    \/ \E c \in Ctx : LockFail(1, c)
    \/ \E c \in Ctx : ProcessTx(1, c)
    \/ \E c \in Ctx, ok \in BOOLEAN : PublishReturn(1, c, ok)
    \/ \E c \in Ctx : Unlock(1, c)
    \/ \E c \in Ctx : LoopDone(1, c)
    \/ \E k \in Keys : LeaseExpire(k)

SpecProc == InitProc /\ [][NextProc]_vars

\* two instances with the same configuration and the same Redis, one caller each
NextMulti ==
    \/ \E i \in Inst : StartCheck(i, "t1")
    \/ \E i \in Inst : StartSet(i, "t1")
    \/ \E i \in Inst : StartSubscribe(i, "t1")
    \/ \E i \in Inst : StartSpawn(i, "t1")
    \/ \E i \in Inst, c \in Ctx, b \in MultiBlocks : FeedDeliver(i, c, b)
    \/ \E i \in Inst, c \in Ctx : FeedCtxDone(i, c)
    \/ \E i \in Inst, c \in Ctx : CtxTimeout(i, c)
    \/ \E i \in Inst, c \in Ctx : LoopCancelled(i, c)
    \/ \E i \in Inst, c \in Ctx : LoopErr(i, c)
    \/ \E i \in Inst, c \in Ctx : LoopRecv(i, c)
    \/ \E i \in Inst, c \in Ctx : LoopChanClosed(i, c)
    \/ \E i \in Inst, c \in Ctx : LoopBegin(i, c)
    \/ \E i \in Inst, c \in Ctx : LockOk(i, c)
    \/ \E i \in Inst, c \in Ctx : LockFail(i, c)
    \/ \E i \in Inst, c \in Ctx : ProcessTx(i, c)
    \/ \E i \in Inst, c \in Ctx, ok \in BOOLEAN : PublishReturn(i, c, ok)
    \/ \E i \in Inst, c \in Ctx : Unlock(i, c)
    \/ \E i \in Inst, c \in Ctx : LoopDone(i, c)
    \/ \E k \in Keys : LeaseExpire(k)

SpecMulti == Init /\ [][NextMulti]_vars

\* the blocks the feed of the sequential specification delivers: two
\* transactions, both with the watched address a1
SeqBlocks ==
    {[Hash |-> "h1",
      Transactions |-> <<[Source |-> "a1", Destination |-> "a2"],
                         [Source |-> "a2", Destination |-> "a1"]>>]}

\* one instance, one caller issuing Start, Stop and IsRunning one after another
NextSeq ==
    \/ StartCheck(1, "t1")
    \/ StartSet(1, "t1")
    \/ StartSubscribe(1, "t1")
    \/ StartSpawn(1, "t1")
    \/ StopCancel(1, "t1")
    \/ StopWait(1, "t1")
    \/ IsRunning(1, "t1")
    \/ \E c \in Ctx, b \in SeqBlocks : FeedDeliver(1, c, b)
    \/ \E c \in Ctx : FeedError(1, c)
    \/ \E c \in Ctx : FeedCtxDone(1, c)
    \/ \E c \in Ctx : LoopCancelled(1, c)
    \/ \E c \in Ctx : LoopErr(1, c)
    \/ \E c \in Ctx : LoopRecv(1, c)
    \/ \E c \in Ctx : LoopChanClosed(1, c)
    \/ \E c \in Ctx : LoopBegin(1, c)
    \/ \E c \in Ctx : LockOk(1, c)
    \/ \E c \in Ctx : LockFail(1, c)
    \/ \E c \in Ctx : ProcessTx(1, c)
    \/ \E c \in Ctx, ok \in BOOLEAN : PublishReturn(1, c, ok)
    \/ \E c \in Ctx : Unlock(1, c)
    \/ \E c \in Ctx : LoopDone(1, c)
    \/ \E k \in Keys : LeaseExpire(k)

SpecSeq == Init /\ [][NextSeq]_vars

\* NewInMemoryAddressWatcher: the map starts empty
InitAddr == InitWith({{}})

\* the address watcher of one instance and two concurrent callers
NextAddr ==
    \/ \E k \in Clients, b \in Batches : AddAddresses(1, k, b)
    \/ \E k \in Clients, b \in Batches : RemoveAddresses(1, k, b)
    \/ \E k \in Clients : WriteLock(1, k)
    \/ \E k \in Clients : WriteStep(1, k)
    \/ \E k \in Clients : WriteReturn(1, k)
    \/ \E k \in Clients, a \in Addr : IsWatchedCall(1, k, a)
    \/ \E k \in Clients : GetWatchedAddresses(1, k)
    \/ \E k \in Clients : ReadLock(1, k)
    \/ \E k \in Clients : ReadReturn(1, k)

SpecAddr == InitAddr /\ [][NextAddr]_vars

\* ================================================================= claims
\* the calls of one kind in a call log, in order
CallsOf(log, name) == SelectSeq(log, LAMBDA e : e.op = name)

\* the transaction indices handed to Publish, in call order
PublishedIdx(log) == [k \in 1..Len(CallsOf(log, "Publish")) |-> CallsOf(log, "Publish")[k].idx]

\* the indices 1..n of the transactions of txs with a watched endpoint, ascending
RECURSIVE WatchedIdx(_, _, _)
WatchedIdx(W, txs, n) ==
    IF n = 0 THEN <<>>
    ELSE LET before == WatchedIdx(W, txs, n - 1)
         IN  IF txs[n].Source \in W \/ txs[n].Destination \in W
             THEN Append(before, n) ELSE before

\* processBlock of loop c has returned after a Lock that succeeded / failed
ReturnedLocked(c) == loop[1][c].pc = "done" /\ calls[1][c][1].res = "ok"
ReturnedUnlocked(c) == loop[1][c].pc = "done" /\ calls[1][c][1].res = "err"

\* live ingestion goroutines of an instance
LiveLoops(i) == {c \in Ctx : loop[i][c].pc \in Alive}

\* C1: at most one ingestion loop goroutine is alive in a process, under any
\* interleaving of Start and Stop calls.
C1_AtMostOneLoop == Cardinality(LiveLoops(1)) <= 1

\* C2: once a Start has returned, a further Start with no Stop in between is
\* a no-op: SubscribeToBlocks has been called exactly once, exactly one
\* ingestion loop was spawned and the stored cancel handle is still the first.
C2_SecondStartNoop ==
    (startRet[1] /\ pc[1]["t1"] = "idle") =>
        /\ Cardinality({c \in Ctx : feed[1][c] # "none"}) = 1
        /\ Cardinality({c \in Ctx : loop[1][c].pc # "none"}) = 1
        /\ nctx[1] = 1
        /\ cancelFunc[1] = 1

C2_Witness == lastRet[1] = Ret("t1", "start_noop") /\ loop[1][1].pc \in Alive

\* C3: when Stop returns, no processBlock invocation that was executing when
\* this Stop cancelled the monitor context is still executing.
C3_StopDrains ==
    \A t \in Threads :
        lastRet[1] = Ret(t, "stop_done") => \A c \in Ctx : drainOwner[1][c] # t

C3_Witness ==
    \E t \in Threads, c \in Ctx :
        /\ pc[1][t] = "stop_wait"
        /\ drainOwner[1][c] = t
        /\ loop[1][c].pc = "publish"

\* C4: the running flag is true iff a cancel handle is stored and the
\* ingestion loop of that handle has not exited.
C4_RunningIff ==
    isRunning[1] <=> (cancelFunc[1] # 0 /\ loop[1][cancelFunc[1]].pc \notin Exited)

\* C5: for every block hash at most one instance is between a successful
\* Lock and the matching Unlock.
HoldersOf(h) ==
    {i \in Inst : \E c \in Ctx : /\ loop[i][c].pc \in {"tx", "publish", "unlock"}
                                 /\ loop[i][c].blk.Hash = h}

C5_OneHolderPerBlock == \A h \in Hashes : Cardinality(HoldersOf(h)) <= 1

\* C6: the transactions of one block are published by at most one instance.
C6_PublishedByOneInstance ==
    \A i \in Inst, j \in Inst : i # j => published[i] \cap published[j] = {}

\* C7: when Lock returns an error, processBlock returns nil having made no
\* Publish and no Unlock call, and the loop goes back to its select.
C7_LockErrorSkipsBlock ==
    [][\A c \in Ctx :
          ReturnedUnlocked(c) =>
              /\ loop[1][c].ret = "nil"
              /\ Len(calls[1][c]) = 1
              /\ (loop'[1][c] # loop[1][c] => loop'[1][c].pc = "select")]_vars

C7_Witness ==
    \E c \in Ctx : /\ ReturnedUnlocked(c)
                   /\ WatchedIdx(watchedAddresses[1], loop[1][c].blk.Transactions,
                                 Len(loop[1][c].blk.Transactions)) # <<>>

\* C8: for a block whose Lock succeeded, Unlock is called exactly once, with
\* the key of the block, after every Publish call and before processBlock
\* returns; a block without transactions makes the Lock and Unlock calls only.
C8_UnlockOnceLast ==
    \A c \in Ctx :
        LET log == calls[1][c]
            key == LockKey(loop[1][c].blk.Hash)
        IN  /\ loop[1][c].pc \in {"tx", "publish", "unlock"} =>
                   CallsOf(log, "Unlock") = <<>>
            /\ ReturnedLocked(c) =>
                   /\ Len(CallsOf(log, "Unlock")) = 1
                   /\ log[Len(log)].op = "Unlock"
                   /\ log[Len(log)].key = key
                   /\ log[1].key = key
                   /\ (loop[1][c].blk.Transactions = <<>> => Len(log) = 2)

C8_Witness ==
    \E c \in Ctx : /\ ReturnedLocked(c)
                   /\ Len(CallsOf(calls[1][c], "Publish")) = 2
                   /\ calls[1][c][2].res = "err"

\* C9: for a block whose Lock succeeded, Publish is called for exactly the
\* transactions with a watched source or destination, once each, in block order.
C9_PublishesExactlyWatched ==
    \A c \in Ctx :
        ReturnedLocked(c) =>
            PublishedIdx(calls[1][c]) =
                WatchedIdx(watchedAddresses[1], loop[1][c].blk.Transactions,
                           Len(loop[1][c].blk.Transactions))

C9_Witness ==
    \E c \in Ctx :
        /\ ReturnedLocked(c)
        /\ watchedAddresses[1] = {"a2"}
        /\ loop[1][c].blk.Transactions =
               <<[Source |-> "a1", Destination |-> "a1"],
                 [Source |-> "a1", Destination |-> "a2"]>>
        /\ PublishedIdx(calls[1][c]) = <<2>>

\* C10: a Publish error for one relevant transaction does not stop the later
\* ones from being published, Unlock is still called and processBlock returns nil.
C10_PublishErrorNonFatal ==
    \A c \in Ctx :
        (ReturnedLocked(c) /\ \E k \in 1..Len(calls[1][c]) :
                                 calls[1][c][k].op = "Publish" /\ calls[1][c][k].res = "err") =>
            /\ Len(CallsOf(calls[1][c], "Publish")) =
                   Len(WatchedIdx(watchedAddresses[1], loop[1][c].blk.Transactions,
                                  Len(loop[1][c].blk.Transactions)))
            /\ calls[1][c][Len(calls[1][c])].op = "Unlock"
            /\ loop[1][c].ret = "nil"

C10_Witness ==
    \E c \in Ctx :
        /\ ReturnedLocked(c)
        /\ Len(calls[1][c]) = 4
        /\ calls[1][c][2].op = "Publish" /\ calls[1][c][2].res = "err"
        /\ calls[1][c][3].op = "Publish"

\* C11: at any moment an instance has at most one processBlock executing and
\* at most one outstanding Lock request, after any sequence of Start and Stop
\* calls.
C11_OneBlockAtATime ==
    /\ Cardinality({c \in Ctx : loop[1][c].pc \in InProcessBlock}) <= 1
    /\ Cardinality({c \in Ctx : loop[1][c].pc = "lock"}) <= 1

\* C12: when the error channel yields a value or the block channel is closed
\* the ingestion loop exits; an exited loop stays exited, its subscription is
\* closed and never renewed, it takes and processes no further block, and the
\* exit changes no caller's position and returns nothing to any caller (the
\* Start that spawned the loop has returned before).
C12_StreamEndExitsLoop ==
    [][\A c \in Ctx :
          /\ errChan'[1][c] < errChan[1][c] => loop'[1][c].pc = "exit_err"
          /\ (loop[1][c].pc = "select" /\ loop'[1][c] # loop[1][c]) =>
                 \/ loop'[1][c].pc \in Exited
                 \/ loop'[1][c].pc = "recv" /\ blockChan[1][c] # <<>>
          /\ (loop[1][c].pc \notin Exited /\ loop'[1][c].pc \in {"exit_err", "exit_closed"}) =>
                 /\ pc'[1] = pc[1]
                 /\ lastRet'[1] = NoRet
                 /\ \A t \in Threads : myCtx[1][t] # c
          /\ loop[1][c].pc \in {"exit_err", "exit_closed"} =>
                 /\ loop'[1][c] = loop[1][c]
                 /\ feed[1][c] = "closed" /\ feed'[1][c] = "closed"
                 /\ blockChan'[1][c] = blockChan[1][c]
                 /\ calls'[1][c] = <<>>]_vars

C12_Witness ==
    \E c \in Ctx, d \in Ctx :
        /\ loop[1][c].pc = "exit_err" /\ Len(blockChan[1][c]) = 1
        /\ loop[1][d].pc = "exit_closed"

\* the value a return statement of Start or Stop yields: line 57, line 117
\* and line 195 are `return nil`
ReturnValue(op) ==
    IF op \in {"start_noop", "start_done", "stop_done"} THEN "nil" ELSE "error"

\* C13: every return of Start and of Stop yields nil, in every state and
\* whatever collaborator call has failed.
C13_StartStopReturnNil ==
    lastRet[1].op \notin {"", "running_true", "running_false"} =>
        ReturnValue(lastRet[1].op) = "nil"

C13_Witness ==
    /\ lastRet[1].op = "start_done"
    /\ \E c \in Ctx : /\ loop[1][c].pc = "select"
                      /\ feed[1][c] = "closed" /\ errChan[1][c] = 1
    /\ \E c \in Ctx : \E k \in 1..Len(calls[1][c]) : calls[1][c][k].res = "err"

\* a step in which caller t enters Stop on an Idle controller
StopOnIdle(t) == pc[1][t] = "idle" /\ pc'[1][t] = "stop_wait" /\ ~isRunning[1]

\* C14: Stop on an Idle controller (never started, or already stopped) calls
\* no collaborator, spawns nothing, leaves the controller Idle and its state
\* as it was, and returns at once: its wait on the drain barrier finds
\* nothing in flight.
C14_StopIdempotent ==
    [][\A t \in Threads :
          StopOnIdle(t) =>
              /\ ~isRunning'[1]
              /\ UNCHANGED <<cancelFunc, ctxDone, nctx, loop, feed, blockChan,
                             errChan, calls, published, redis, lmutex>>
              /\ wg'[1] = 0]_vars

\* C15: with one caller, IsRunning returns false on a new service, true once
\* a Start has returned, false once a following Stop has returned, and true
\* again after a later Start: between calls the flag is set exactly when a
\* Start has returned with no Stop after it.
C15_IsRunningCycle ==
    /\ lastRet[1].op = "running_true" => startRet[1]
    /\ lastRet[1].op = "running_false" => ~startRet[1]
    /\ pc[1]["t1"] = "idle" => (isRunning[1] <=> startRet[1])

C15_Witness ==
    /\ lastRet[1] = Ret("t1", "running_true")
    /\ nctx[1] = 2
    /\ 1 \in ctxDone[1]

\* C16: the running flag does not read false before Stop's wait on the drain
\* barrier has completed: while a Stop waits for a processBlock in flight,
\* no Start finds the flag false at its already-running check (and goes on
\* to create a context) and no IsRunning returns false.
C16_IdleAfterDrain ==
    [][(\E t \in Threads : pc[1][t] = "stop_wait" /\ wg[1] > 0) =>
           /\ nctx'[1] = nctx[1]
           /\ lastRet'[1].op # "running_false"]_vars

\* C17: IsRunning never waits for a collaborator call: in every state in
\* which a Lock or Publish call of the instance is in flight, a caller that
\* is not inside another call can complete IsRunning.
C17_IsRunningNeverBlocksOnIO ==
    \A t \in Threads :
        (pc[1][t] = "idle" /\ \E c \in Ctx : loop[1][c].pc \in {"lock", "publish"}) =>
            ENABLED IsRunning(1, t)

\* C18: when Stop cancels the monitor context while a block is being
\* processed, the transaction loop goes on as if nothing had happened: at
\* every point after the cancel the Publish calls made are exactly those for
\* the relevant transactions reached so far, at the return of processBlock
\* every relevant transaction of the block has been published and every
\* Publish call has returned, and Stop is still waiting all that time.
C18_CancelDoesNotCutBlock ==
    \A c \in Ctx :
        LET l == loop[1][c]
            relevant(n) == WatchedIdx(watchedAddresses[1], l.blk.Transactions, n)
            n == Len(l.blk.Transactions)
        IN  (c \in ctxDone[1] /\ (l.pc \in {"tx", "publish", "unlock"} \/ ReturnedLocked(c))) =>
                /\ pc[1]["t1"] = "stop_wait"
                /\ l.pc = "tx" =>
                       PublishedIdx(calls[1][c]) = relevant(IF l.idx > n THEN n ELSE l.idx - 1)
                /\ l.pc = "publish" => PublishedIdx(calls[1][c]) = relevant(l.idx)
                /\ l.pc \in {"unlock", "done"} =>
                       /\ PublishedIdx(calls[1][c]) = relevant(n)
                       /\ \A k \in 1..Len(calls[1][c]) : calls[1][c][k].res # "pending"

C18_Witness ==
    \E c \in Ctx :
        /\ ReturnedLocked(c)
        /\ c \in ctxDone[1]
        /\ pc[1]["t1"] = "stop_wait"
        /\ PublishedIdx(calls[1][c]) = <<1, 2>>

\* C19: for every address A, once an AddAddresses call naming A has returned
\* IsWatched(A) is true, and once a later RemoveAddresses call naming A has
\* returned IsWatched(A) is false, whatever calls on other addresses lie in
\* between: the membership of A, and every IsWatched(A) result, follows the
\* last returned write call that names A.
C19_Membership ==
    /\ wmu[1].w = "" =>
           \A a \in Addr : /\ wlast[1][a] = "Add" => IsWatched(1, a)
                           /\ wlast[1][a] = "Remove" => ~IsWatched(1, a)
    /\ \A k \in Clients :
           (wcall[1][k].pc = "idle" /\ wcall[1][k].op = "IsWatched") =>
               /\ wcall[1][k].seen = "Add" => wcall[1][k].ret
               /\ wcall[1][k].seen = "Remove" => ~wcall[1][k].ret

C19_Witness ==
    \E k \in Clients :
        /\ wcall[1][k].pc = "idle" /\ wcall[1][k].op = "IsWatched"
        /\ wcall[1][k].args = <<"a1">>
        /\ wcall[1][k].seen = "Remove" /\ ~wcall[1][k].ret
        /\ wlast[1]["a2"] = "Add" /\ IsWatched(1, "a2")

\* the membership M shows all of write call w or none of it
Whole(M, w) ==
    \/ \A a \in Elems(w.args) : a \in M <=> a \in w.pre
    \/ \A a \in Elems(w.args) : a \in M <=> w.op = "Add"

\* the membership after write call w
After(w) == IF w.op = "Add" THEN w.pre \cup Elems(w.args) ELSE w.pre \ Elems(w.args)

\* C20: a GetWatchedAddresses or IsWatched call that runs while AddAddresses
\* or RemoveAddresses calls are in progress returns, for each of them, the
\* membership before the whole call or after the whole call, never a part
\* of its batch.
C20_Linearizable ==
    \A k \in Clients :
        LET r == wcall[1][k]
        IN  r.pc = "idle" =>
                \A w \in r.inflight :
                    /\ r.op = "Get" => Whole(r.list, w)
                    /\ r.op = "IsWatched" =>
                           \/ r.ret = (r.args[1] \in w.pre)
                           \/ r.ret = (r.args[1] \in After(w))

C20_Witness ==
    \E k \in Clients :
        /\ wcall[1][k].pc = "idle" /\ wcall[1][k].op = "Get"
        /\ wcall[1][k].list = {"a1"}
        /\ \E w \in wcall[1][k].inflight :
               w.op = "Remove" /\ w.args = <<"a1", "a2">> /\ w.pre = {"a1"}

\* ====================================================== the published event
\* *big.Int amounts and block numbers
Amounts == {1, 2}
BlockNumbers == {1, 2}

\* blockchain.Transaction with every field processBlock can see; Transaction
\* above is its projection on the two fields relevance reads
FullTransaction ==
    [Source : Addr, Destination : Addr, Amount : Amounts, Fees : Amounts,
     Hash : Hashes, BlockNumber : BlockNumbers]

\* block.Transactions of the blocks handed to processBlock
FullBlocks == SeqsUpTo(FullTransaction, MaxTx)

\* the fields of the *big.Int type
BigIntFields == {"Amount", "Fees", "BlockNumber"}

\* pubsub.Transaction with the block number as a sixth field
PubsubTransactionFieldsWithBlockNumber ==
    <<"Source", "Destination", "Amount", "Fees", "Hash", "BlockNumber">>

\* pubsub.Transaction: its fields in declaration order
PubsubTransactionFields == <<"Source", "Destination", "Amount", "Fees", "Hash">>

\* lines 143-149: the event copies each field of pubsub.Transaction from tx
NewEvent(tx) ==
    [f \in {PubsubTransactionFields[k] : k \in DOMAIN PubsubTransactionFields} |-> tx[f]]

\* json.Marshal of the event, line 152: the fields in declaration order, each
\* with its name; a *big.Int is written as its decimal digits
Marshal(event) ==
    [k \in DOMAIN PubsubTransactionFields |->
        LET f == PubsubTransactionFields[k]
        IN  <<f, IF f \in BigIntFields THEN ToString(event[f]) ELSE event[f]>>]

\* processBlock from the range loop on, line 134, for a block of any transactions
processBlockCall ==
    /\ pay.pc = "idle"
    /\ \E txs \in FullBlocks : pay' = [pc |-> "tx", txs |-> txs, idx |-> 1, log |-> <<>>]
    /\ NoReturn
    /\ UNCHANGED <<monitorVars, watchedAddresses, wmu, wcall, wlast, http, lk, sub, srv>>

\* one iteration of the range loop, lines 134-172: an irrelevant transaction is
\* skipped, a relevant one is turned into an event, marshalled and handed to
\* Publish with the topic; the loop goes on whatever Publish returns
PublishEvent(i) ==
    /\ pay.pc = "tx"
    /\ IF pay.idx > Len(pay.txs)
       THEN pay' = NoPay
       ELSE LET tx == pay.txs[pay.idx]
                msg == Marshal(NewEvent(tx))
            IN  IF isTransactionRelevant(i, tx)
                THEN pay' = [pay EXCEPT !.idx = @ + 1,
                                        !.log = Append(@, [topic |-> TopicTransaction,
                                                           msg |-> msg,
                                                           idx |-> pay.idx])]
                ELSE pay' = [pay EXCEPT !.idx = @ + 1]
    /\ NoReturn
    /\ UNCHANGED <<monitorVars, watchedAddresses, wmu, wcall, wlast, http, lk, sub, srv>>

\* processBlock over blocks whose transactions carry every field
NextPay ==
    \/ processBlockCall
    \/ PublishEvent(1)

SpecPay == Init /\ [][NextPay]_vars

\* ------------------------------------------------------------------- C21
\* the five fields of a transaction that the consumer of the topic is promised
EventOf(tx) ==
    [Source |-> tx.Source, Destination |-> tx.Destination, Amount |-> tx.Amount,
     Fees |-> tx.Fees, Hash |-> tx.Hash]

\* what a consumer reads back from a payload: every named field, numbers parsed
Unmarshal(msg) ==
    [f \in {msg[k][1] : k \in DOMAIN msg} |->
        LET v == msg[CHOOSE k \in DOMAIN msg : msg[k][1] = f][2]
        IN  IF f \in BigIntFields
            THEN CHOOSE n \in Amounts \cup BlockNumbers : ToString(n) = v
            ELSE v]

\* C21: every Publish call of processBlock names the transaction topic, its
\* payload reads back as exactly the source, destination, amount, fees and
\* hash of the transaction being published, and two calls carry the same
\* payload exactly when their transactions agree on these five fields,
\* whatever their block numbers
C21_PayloadOfFiveFields ==
    \A j \in DOMAIN pay.log :
        LET e == pay.log[j]
        IN  /\ e.topic = TopicTransaction
            /\ Unmarshal(e.msg) = EventOf(pay.txs[e.idx])
            /\ \A k \in DOMAIN pay.log :
                   (e.msg = pay.log[k].msg)
                       <=> (EventOf(pay.txs[e.idx]) = EventOf(pay.txs[pay.log[k].idx]))

\* two transactions that differ only in block number were both published
C21_Witness ==
    /\ Len(pay.log) = 2
    /\ pay.txs[1] # pay.txs[2]
    /\ EventOf(pay.txs[1]) = EventOf(pay.txs[2])
    /\ pay.log[1].idx = 1 /\ pay.log[2].idx = 2

\* ======================================================= the HTTP handlers
\* what a TxMonitorService method returns to a handler
Errors == {"nil", "error"}

\* the service method a handler calls
ServiceMethod(kind) == IF kind = "start" THEN "Start" ELSE "Stop"

\* the handler is entered for a request and calls the service, lines 59 (start)
\* and 167 (stop)
HandlerCall(r, kind) ==
    /\ http[r].pc \in {"idle", "done"}
    /\ http' = [http EXCEPT ![r] = [NoRequest EXCEPT !.pc = "in_service",
                                                     !.kind = kind,
                                                     !.calls = <<ServiceMethod(kind)>>]]
    /\ NoReturn
    /\ UNCHANGED <<monitorVars, watchedAddresses, wmu, wcall, wlast, pay, lk, sub, srv>>

\* apiDetails.startTxMonitor, route POST /txmonitor/start
startTxMonitor(r) == HandlerCall(r, "start")

\* apiDetails.stopTxMonitor, route POST /txmonitor/stop
stopTxMonitor(r) == HandlerCall(r, "stop")

\* api.service.Start / api.service.Stop returns to the handler
ServiceReturn(r, err) ==
    /\ http[r].pc = "in_service"
    /\ http' = [http EXCEPT ![r].pc = "returned", ![r].err = err]
    /\ NoReturn
    /\ UNCHANGED <<monitorVars, watchedAddresses, wmu, wcall, wlast, pay, lk, sub, srv>>

\* createErrorResponse, router.go line 19: the body holds the message only
createErrorResponse(code, message) == [code |-> code, body |-> {<<"message", message>>}]

\* c.JSON(http.StatusOK, gin.H{...}), lines 72-75 and 180-183
SuccessResponse(kind) ==
    [code |-> 200,
     body |-> IF kind = "start"
              THEN {<<"message", "Transaction monitor started successfully">>,
                    <<"status", "running">>}
              ELSE {<<"message", "Transaction monitor stopped successfully">>,
                    <<"status", "stopped">>}]

\* the handler's answer to what the service returned
Response(kind, err) ==
    IF err # "nil"
    THEN createErrorResponse(500, IF kind = "start"
                                  THEN "Failed to start transaction monitor"
                                  ELSE "Failed to stop transaction monitor")
    ELSE SuccessResponse(kind)

\* a handler that answers success whatever the service returned
HandlerRespondAlwaysOK(r) ==
    /\ http[r].pc = "returned"
    /\ LET resp == SuccessResponse(http[r].kind)
       IN  http' = [http EXCEPT ![r].pc = "done", ![r].code = resp.code, ![r].body = resp.body]
    /\ NoReturn
    /\ UNCHANGED <<monitorVars, watchedAddresses, wmu, wcall, wlast, pay, lk, sub, srv>>

\* the rest of the handler after the service call: the error branch returns
\* after createErrorResponse, the other branch writes the success body
HandlerRespond(r) ==
    /\ http[r].pc = "returned"
    /\ LET resp == Response(http[r].kind, http[r].err)
       IN  http' = [http EXCEPT ![r].pc = "done", ![r].code = resp.code, ![r].body = resp.body]
    /\ NoReturn
    /\ UNCHANGED <<monitorVars, watchedAddresses, wmu, wcall, wlast, pay, lk, sub, srv>>

\* concurrent start and stop requests against a service that may fail
NextHttp ==
    \/ \E r \in Reqs : startTxMonitor(r)
    \/ \E r \in Reqs : stopTxMonitor(r)
    \/ \E r \in Reqs, err \in Errors : ServiceReturn(r, err)
    \/ \E r \in Reqs : HandlerRespond(r)

SpecHttp == Init /\ [][NextHttp]_vars

\* ------------------------------------------------------------------- C22
\* C22: a start (stop) request makes exactly one call on the service, to Start
\* (Stop); its response is 200 with status "running" ("stopped") if and only
\* if that call returned nil, and otherwise 500 with the fixed failure message
C22_OneCallOneResponse ==
    \A r \in Reqs :
        LET q == http[r]
            status == IF q.kind = "start" THEN "running" ELSE "stopped"
            failure == IF q.kind = "start" THEN "Failed to start transaction monitor"
                       ELSE "Failed to stop transaction monitor"
        IN  /\ q.pc # "idle" => q.calls = <<IF q.kind = "start" THEN "Start" ELSE "Stop">>
            /\ q.pc = "done" =>
                   /\ (q.code = 200 /\ <<"status", status>> \in q.body) <=> (q.err = "nil")
                   /\ q.err # "nil" => (q.code = 500 /\ q.body = {<<"message", failure>>})

\* a failed start has been answered and a successful stop has been answered
C22_Witness ==
    /\ http["r1"].pc = "done" /\ http["r1"].kind = "start" /\ http["r1"].err = "error"
    /\ http["r1"].code = 500
    /\ http["r2"].pc = "done" /\ http["r2"].kind = "stop" /\ http["r2"].err = "nil"
    /\ http["r2"].code = 200

\* ================================================= the Redis-backed lock
\* Each instance number names one redsyncLock object; `lmutex` is its mutex
\* field (NoMutex = nil) and `redis` the shared server, which is reachable.
\* A caller makes one call at a time on its object.

\* the state of the monitor service itself, without the lock it is given
serviceVars == <<isRunning, cancelFunc, wg, mu, nctx, ctxDone, pc, myCtx, loop,
                 feed, blockChan, errChan, delivered, calls, published, startRet,
                 drainOwner, startCtx>>

\* redsyncLock.Lock, lines 32-35: a new mutex for the key is stored in l.mutex
\* and LockContext starts waiting; every mutex has its own value
LockCall(i, key) ==
    /\ lk[i].pc = "idle"
    /\ lk[i].n < MaxLocks
    /\ lmutex' = [lmutex EXCEPT ![i] = NewMutex(i, lk[i].n + 1, key)]
    /\ lk' = [lk EXCEPT ![i] = [NoLockCall EXCEPT !.pc = "locking", !.op = "Lock",
                                                  !.key = key, !.n = lk[i].n + 1,
                                                  !.lastLock = "pending"]]
    /\ NoReturn
    /\ UNCHANGED <<serviceVars, redis, watchedAddresses, wmu, wcall, wlast,
                   pay, http, sub, srv>>

\* the context handed to Lock is cancelled or runs out during the wait
LockCtxDone(i) ==
    /\ lk[i].pc = "locking"
    /\ lk[i].live
    /\ lk' = [lk EXCEPT ![i].live = FALSE]
    /\ NoReturn
    /\ UNCHANGED <<serviceVars, redis, lmutex, watchedAddresses, wmu, wcall, wlast,
                   pay, http, sub, srv>>

\* LockContext that sets the key without looking at its value
LockGrantedAnyway(i) ==
    /\ lk[i].pc = "locking"
    /\ lk[i].live
    /\ redis' = [redis EXCEPT ![lk[i].key] = lmutex[i].tok]
    /\ lk' = [lk EXCEPT ![i].pc = "idle", ![i].res = "nil", ![i].lastLock = "nil",
                        ![i].pre = redis[lk[i].key]]
    /\ NoReturn
    /\ UNCHANGED <<serviceVars, lmutex, watchedAddresses, wmu, wcall, wlast,
                   pay, http, sub, srv>>

\* mutex.LockContext returns nil, line 35: the context is live and the key
\* was free, and now holds the value of this mutex
LockGranted(i) ==
    /\ lk[i].pc = "locking"
    /\ lk[i].live
    /\ redis[lk[i].key] = NoTok
    /\ redis' = [redis EXCEPT ![lk[i].key] = lmutex[i].tok]
    /\ lk' = [lk EXCEPT ![i].pc = "idle", ![i].res = "nil", ![i].lastLock = "nil",
                        ![i].pre = redis[lk[i].key]]
    /\ NoReturn
    /\ UNCHANGED <<serviceVars, lmutex, watchedAddresses, wmu, wcall, wlast,
                   pay, http, sub, srv>>

\* mutex.LockContext returns an error, line 35: the context is done, or the
\* key is held and the tries have run out
LockError(i) ==
    /\ lk[i].pc = "locking"
    /\ ~lk[i].live \/ redis[lk[i].key] # NoTok
    /\ lk' = [lk EXCEPT ![i].pc = "idle", ![i].res = "error", ![i].lastLock = "error",
                        ![i].pre = redis[lk[i].key]]
    /\ NoReturn
    /\ UNCHANGED <<serviceVars, redis, lmutex, watchedAddresses, wmu, wcall, wlast,
                   pay, http, sub, srv>>

\* mutex.UnlockContext: the key is deleted if it still holds the value of the
\* mutex and the context is live; anything else is reported as a failure
UnlockContext(m, live) ==
    IF live /\ redis[m.key] = m.tok
    THEN [redis |-> [redis EXCEPT ![m.key] = NoTok], released |-> TRUE, err |-> "nil"]
    ELSE [redis |-> redis, released |-> FALSE, err |-> "error"]

\* redsyncLock.Unlock, lines 39-41: UnlockContext of the mutex stored last, the
\* key argument unused; with l.mutex nil the call dereferences a nil pointer
UnlockCall(i, key, live) ==
    /\ lk[i].pc = "idle"
    /\ IF lmutex[i] = NoMutex
       THEN /\ lk' = [lk EXCEPT ![i].pc = "panic", ![i].op = "Unlock", ![i].key = key,
                                ![i].live = live, ![i].res = "none",
                                ![i].released = FALSE, ![i].freed = NoTok]
            /\ UNCHANGED redis
       ELSE LET u == UnlockContext(lmutex[i], live)
            IN  /\ redis' = u.redis
                /\ lk' = [lk EXCEPT ![i].op = "Unlock", ![i].key = key,
                                    ![i].live = live, ![i].res = u.err,
                                    ![i].released = u.released,
                                    ![i].pre = redis[lmutex[i].key],
                                    ![i].freed = IF u.released THEN redis[lmutex[i].key]
                                                 ELSE NoTok,
                                    ![i].unlocked = IF live THEN @ \cup {key} ELSE @]
    /\ NoReturn
    /\ UNCHANGED <<serviceVars, lmutex, watchedAddresses, wmu, wcall, wlast,
                   pay, http, sub, srv>>

\* two lock objects on one Redis, their callers, and the leases
NextLock ==
    \/ \E i \in Inst, k \in Keys : LockCall(i, k)
    \/ \E i \in Inst : LockCtxDone(i)
    \/ \E i \in Inst : LockGranted(i)
    \/ \E i \in Inst : LockError(i)
    \/ \E i \in Inst, k \in Keys, live \in BOOLEAN : UnlockCall(i, k, live)
    \/ \E k \in Keys : LeaseExpire(k)

SpecLock == Init /\ [][NextLock]_vars

\* ------------------------------------------------------------------- C23
\* what Lock and Unlock report on every object, whatever happened in between
LockReports ==
    \A i \in Inst :
        LET q == lk[i]
        IN  /\ (q.op = "Lock" /\ q.res = "nil") => q.pre = NoTok
            /\ (q.op = "Lock" /\ q.res = "error") => (q.pre # NoTok \/ ~q.live)
            /\ (q.pc = "locking" /\ q.live /\ redis[q.key] = NoTok)
                   => (ENABLED LockGranted(i) /\ ~ENABLED LockError(i))

C24_UnlockSafeWithoutLock ==
    \A i \in Inst :
        (lk[i].op = "Unlock" /\ lk[i].lastLock \in {"none", "error"}) =>
            /\ lk[i].pc # "panic"
            /\ lk[i].res \in {"nil", "error"}
            /\ lk[i].freed = NoTok \/ lk[i].freed[1] = i

\* the part of C24 about an object whose last Lock failed
C24_UnlockAfterFailedLock ==
    \A i \in Inst :
        (lk[i].op = "Unlock" /\ lk[i].lastLock = "error") =>
            /\ lk[i].pc # "panic"
            /\ lk[i].res = "error" /\ ~lk[i].released
            /\ lk[i].freed = NoTok

\* ============================================ the block feed, step by step
\* EthereumClient.SubscribeToBlocks with its two channels (capacity 1 each),
\* how often each has been closed, and the position of its goroutine. Blocks
\* are numbered in header order; `lateSend` records a send on a closed channel
\* and `recv` what the consumer has taken from the two channels.

\* everything but the feed
notSub == <<monitorVars, watchedAddresses, wmu, wcall, wlast, pay, http, lk, srv>>

\* a send on a channel: it is late if the channel has been closed
Send(q, ch, v) ==
    IF ch = "out"
    THEN [q EXCEPT !.out = Append(@, v), !.lateSend = @ \/ q.outClosed > 0]
    ELSE [q EXCEPT !.errC = Append(@, v), !.lateSend = @ \/ q.errClosed > 0]

\* close(out) and close(errC)
Close(q) == [q EXCEPT !.outClosed = @ + 1, !.errClosed = @ + 1]

\* SubscribeToBlocks whose failed subscription also starts the goroutine
SubscribeCallSpawnsAnyway(ok) ==
    /\ sub.pc = "none"
    /\ sub' = IF ok
              THEN [sub EXCEPT !.pc = "select"]
              ELSE [Close(Send(sub, "errC", "failed to subscribe")) EXCEPT !.pc = "select",
                                                                           !.subErr = TRUE]
    /\ NoReturn
    /\ UNCHANGED notSub

\* lines 296-310: the channels are made and SubscribeNewHead is called; on its
\* error the error is buffered, both channels are closed, and no goroutine
\* starts; otherwise the goroutine starts
SubscribeCall(ok) ==
    /\ sub.pc = "none"
    /\ sub' = IF ok
              THEN [sub EXCEPT !.pc = "select"]
              ELSE [Close(Send(sub, "errC", "failed to subscribe")) EXCEPT !.pc = "failed"]
    /\ NoReturn
    /\ UNCHANGED notSub

\* the subscription context is cancelled or times out
SubCtxCancel ==
    /\ sub.pc \notin {"none", "failed"}
    /\ ~sub.ctxDone
    /\ sub' = [sub EXCEPT !.ctxDone = TRUE]
    /\ NoReturn
    /\ UNCHANGED notSub

\* the subscription fails later: an error is ready on sub.Err()
SubErr ==
    /\ sub.pc \notin {"none", "failed"}
    /\ ~sub.subErr
    /\ sub' = [sub EXCEPT !.subErr = TRUE]
    /\ NoReturn
    /\ UNCHANGED notSub

\* select, case <-ctx.Done(), lines 317-318: return
GoCtxDone ==
    /\ sub.pc = "select"
    /\ sub.ctxDone
    /\ sub' = [sub EXCEPT !.pc = "ret"]
    /\ NoReturn
    /\ UNCHANGED notSub

\* select, case err := <-sub.Err(), lines 319-321: the error is sent on errC
\* (its buffer is free: this is the only send) and the goroutine returns
GoSubErr ==
    /\ sub.pc = "select"
    /\ sub.subErr
    /\ Len(sub.errC) < 1
    /\ sub' = [Send(sub, "errC", "subscription error") EXCEPT !.pc = "ret"]
    /\ NoReturn
    /\ UNCHANGED notSub

\* select, case h := <-headers, lines 322-333: a nil header and a block that
\* cannot be fetched are skipped, a fetched block goes to the inner select
GoHeader(outcome) ==
    /\ sub.pc = "select"
    /\ sub.headers < MaxBlocks
    /\ sub' = IF outcome = "block"
              THEN [sub EXCEPT !.headers = @ + 1, !.blk = sub.headers + 1, !.pc = "send"]
              ELSE [sub EXCEPT !.headers = @ + 1]
    /\ NoReturn
    /\ UNCHANGED notSub

\* inner select, case out <- *blk, line 335: the buffer has room
GoSend ==
    /\ sub.pc = "send"
    /\ Len(sub.out) < 1
    /\ sub' = [Send(sub, "out", sub.blk) EXCEPT !.pc = "select", !.blk = 0]
    /\ NoReturn
    /\ UNCHANGED notSub

\* inner select, case <-ctx.Done(), lines 336-338: the block is dropped
GoSendCtxDone ==
    /\ sub.pc = "send"
    /\ sub.ctxDone
    /\ sub' = [sub EXCEPT !.pc = "ret", !.blk = 0]
    /\ NoReturn
    /\ UNCHANGED notSub

\* the deferred calls of the goroutine, lines 311-313: close(errC), close(out),
\* sub.Unsubscribe()
GoReturn ==
    /\ sub.pc = "ret"
    /\ sub' = [Close(sub) EXCEPT !.pc = "exited"]
    /\ NoReturn
    /\ UNCHANGED notSub

\* the consumer takes the buffered block or the buffered error
ConsumerRecv(ch) ==
    /\ IF ch = "out"
       THEN /\ Len(sub.out) > 0
            /\ sub' = [sub EXCEPT !.out = Tail(@), !.recv = Append(@, Head(sub.out))]
       ELSE /\ Len(sub.errC) > 0
            /\ sub' = [sub EXCEPT !.errC = Tail(@), !.recv = Append(@, Head(sub.errC))]
    /\ NoReturn
    /\ UNCHANGED notSub

\* the steps of the feed goroutine
GoStep ==
    \/ GoCtxDone
    \/ GoSubErr
    \/ \E o \in {"nil", "fetch_err", "block"} : GoHeader(o)
    \/ GoSend
    \/ GoSendCtxDone
    \/ GoReturn

\* one subscription, its context, and its consumer
NextFeed ==
    \/ \E ok \in BOOLEAN : SubscribeCall(ok)
    \/ SubCtxCancel
    \/ SubErr
    \/ GoCtxDone
    \/ GoSubErr
    \/ \E o \in {"nil", "fetch_err", "block"} : GoHeader(o)
    \/ GoSend
    \/ GoSendCtxDone
    \/ GoReturn
    \/ \E ch \in {"out", "errC"} : ConsumerRecv(ch)

\* the goroutine runs while it can, and the ingestion loop keeps receiving
\* blocks for as long as its context is live
SpecFeed ==
    /\ Init /\ [][NextFeed]_vars
    /\ WF_vars(GoStep)
    /\ WF_vars(ConsumerRecv("out"))

\* ------------------------------------------------------------------- C25
\* both channels of the feed are closed
BothClosed == sub.outClosed = 1 /\ sub.errClosed = 1

\* C25: no channel of the feed is closed twice and nothing is sent on a closed
\* channel; once the subscription context is cancelled, and once the
\* subscription has failed (at subscribe time or later), both channels get
\* closed
C25_FeedClosesBothOnce ==
    /\ [](sub.outClosed <= 1 /\ sub.errClosed <= 1 /\ ~sub.lateSend)
    /\ [](sub.pc = "failed" => BothClosed)
    /\ (sub.ctxDone ~> BothClosed)
    /\ (sub.subErr ~> BothClosed)

\* the feed has sent a block, then its subscription failed, and it has sent
\* the error and closed both channels
C25_Witness ==
    /\ sub.pc = "exited" /\ BothClosed
    /\ sub.subErr /\ ~sub.ctxDone
    /\ sub.headers > 0 /\ sub.errC = <<"subscription error">>

\* ==================================================== the server's shutdown
\* apiDetails.StartServer: `srv.log` lists, in order, what the function has
\* done; the requests of the HTTP handlers are served while the listeners
\* are open.

\* everything but the server
notSrv == <<monitorVars, watchedAddresses, wmu, wcall, wlast, pay, http, lk, sub>>

\* positions of StartServer at which the listeners accept requests
Listening == {"serving", "in_stop"}

\* StartServer, lines 223-254: the goroutine runs ListenAndServe, the function
\* waits for a listen error or a signal
StartServer ==
    /\ srv.pc = "none"
    /\ srv' = [pc |-> "serving", log |-> <<"ListenAndServe">>]
    /\ NoReturn
    /\ UNCHANGED notSrv

\* select, case err := <-serverErrChan, lines 255-257: os.Exit(1)
ServerListenError ==
    /\ srv.pc = "serving"
    /\ srv' = [pc |-> "exit1", log |-> Append(srv.log, "os.Exit(1)")]
    /\ NoReturn
    /\ UNCHANGED notSrv

\* a signal branch that shuts the HTTP server down before it stops the monitor
ServerSignalClosesListenersFirst ==
    /\ srv.pc = "serving"
    /\ srv' = [pc |-> "in_stop", log |-> srv.log \o <<"signal", "Shutdown", "Stop">>]
    /\ NoReturn
    /\ UNCHANGED notSrv

\* select, case sig := <-stop, lines 258-268: the 30 s context is made and
\* api.service.Stop(ctx) is called
ServerSignal ==
    /\ srv.pc = "serving"
    /\ srv' = [pc |-> "in_stop", log |-> srv.log \o <<"signal", "Stop">>]
    /\ NoReturn
    /\ UNCHANGED notSrv

\* lines 268-273: Stop returns (an error is only logged) and srv.Shutdown(ctx)
\* is called, which closes the listeners
ServerStopReturn(err) ==
    /\ srv.pc = "in_stop"
    /\ srv' = [pc |-> "in_shutdown",
               log |-> srv.log \o <<IF err = "nil" THEN "Stop returned nil"
                                    ELSE "Stop returned error", "Shutdown">>]
    /\ NoReturn
    /\ UNCHANGED notSrv

\* lines 273-278: Shutdown returns (an error is only logged), "Server stopped"
\* is logged and StartServer returns to the command, which returns (rest.go
\* line 148)
ServerShutdownReturn(err) ==
    /\ srv.pc = "in_shutdown"
    /\ srv' = [pc |-> "returned",
               log |-> srv.log \o <<IF err = "nil" THEN "Shutdown returned nil"
                                    ELSE "Shutdown returned error", "Server stopped">>]
    /\ NoReturn
    /\ UNCHANGED notSrv

\* the server from StartServer to its return, and the requests it serves
NextServer ==
    \/ StartServer
    \/ ServerListenError
    \/ ServerSignal
    \/ \E err \in Errors : ServerStopReturn(err)
    \/ \E err \in Errors : ServerShutdownReturn(err)
    \/ srv.pc \in Listening /\ \E r \in Reqs : startTxMonitor(r)
    \/ srv.pc \in Listening /\ \E r \in Reqs : stopTxMonitor(r)
    \/ \E r \in Reqs, err \in Errors : ServiceReturn(r, err)
    \/ \E r \in Reqs : HandlerRespond(r)

SpecServer == Init /\ [][NextServer]_vars

\* ------------------------------------------------------------------- C26
\* the positions of an event in the server's log
At(e) == {j \in DOMAIN srv.log : srv.log[j] = e}

\* the positions at which Stop has returned
StopReturnedAt == At("Stop returned nil") \cup At("Stop returned error")

\* C26: the HTTP server is shut down (its listeners closed) on a signal only
\* after Stop has been called on the monitor and has returned
C26_StopBeforeListenersClose ==
    /\ At("signal") # {} => At("Stop") # {}
    /\ \A j \in At("Shutdown") :
           \E s \in At("signal"), a \in At("Stop"), b \in StopReturnedAt :
               s < a /\ a < b /\ b < j

\* the server has been told to shut down and has closed its listeners
C26_Witness ==
    /\ srv.pc = "returned"
    /\ At("signal") # {} /\ At("Shutdown") # {}

\* ------------------------------------------------------------------- C27
\* C27: when the shutdown after a signal completes, the publisher has been
\* closed (its pending messages flushed) after Stop returned
C27_PublisherFlushedOnShutdown ==
    (srv.pc = "returned" /\ At("signal") # {}) =>
        \E b \in StopReturnedAt, k \in At("publisher.Close") : b < k

\* ------------------------------------------------------------------- C28
\* C28: at the select point cancellation comes first: a loop whose context is
\* already cancelled takes no block and no error from its channels, it exits
\* through the cancellation case
C28_CancellationFirst ==
    [][\A c \in Ctx :
          (loop[1][c].pc = "select" /\ c \in ctxDone[1] /\ loop'[1][c] # loop[1][c])
              => loop'[1][c].pc = "exit_ctx"]_vars

\* ------------------------------------------------------------------- C29
\* the loops between wg.Add(1) and wg.Done()
InBracket(i) == {c \in Ctx : loop[i][c].pc \in InProcessBlock \cup {"done"}}

\* C29: the drain barrier counts the processBlock invocations between their
\* wg.Add(1) and their wg.Done(), whatever they return: it is never negative
\* and it is zero whenever no block is being processed
C29_BarrierCountsInvocations ==
    /\ wg[1] = Cardinality(InBracket(1))
    /\ wg[1] >= 0
    /\ InBracket(1) = {} => wg[1] = 0

\* a processBlock whose Lock failed has returned and the barrier still counts it
C29_Witness ==
    \E c \in Ctx : ReturnedUnlocked(c) /\ wg[1] = 1

\* ------------------------------------------------------------------- C30
\* no Start or Stop call is in progress and the last one to finish was a Stop
\* (or there has been none)
StoppedAndQuiet == ~isRunning[1] /\ \A t \in Threads : pc[1][t] = "idle"

\* C30: once Stop has returned and until the next Start is called, the
\* instance makes no Lock call and no Publish call
C30_NoCallsAfterStop ==
    [][StoppedAndQuiet =>
           \A c \in Ctx :
               /\ loop'[1][c].pc = "lock" => loop[1][c].pc = "lock"
               /\ loop'[1][c].pc = "publish" => loop[1][c].pc = "publish"]_vars

\* ------------------------------------------------------------------- C31
\* C31: once a Stop has returned and no Start has been called since, every
\* cancel handle that a Start created has been invoked, so that no ingestion
\* loop of an earlier Start is left with a live context
C31_StopCancelsEveryHandle ==
    StoppedAndQuiet => \A c \in 1..nctx[1] : c \in ctxDone[1]

\* ------------------------------------------------------------------- C32
\* the steps of an ingestion loop that has taken a block, up to wg.Done():
\* every collaborator call of the block returns and the loop moves on
BlockStep ==
    \E c \in Ctx :
        \/ LoopBegin(1, c)
        \/ LockOk(1, c)
        \/ LockFail(1, c)
        \/ ProcessTx(1, c)
        \/ \E ok \in BOOLEAN : PublishReturn(1, c, ok)
        \/ Unlock(1, c)
        \/ LoopDone(1, c)

\* two callers of Start and Stop, the second also of IsRunning, with a feed
\* and no ceiling expiry
NextLive ==
    \/ \E t \in Threads : StartCheck(1, t)
    \/ \E t \in Threads : StartSet(1, t)
    \/ \E t \in Threads : StartSubscribe(1, t)
    \/ \E t \in Threads : StartSpawn(1, t)
    \/ \E t \in Threads : StopCancel(1, t)
    \/ \E t \in Threads : StopWait(1, t)
    \/ IsRunning(1, "t2")
    \/ \E c \in Ctx, b \in LifeBlocks : FeedDeliver(1, c, b)
    \/ \E c \in Ctx : FeedError(1, c)
    \/ \E c \in Ctx : FeedCtxDone(1, c)
    \/ \E c \in Ctx : LoopCancelled(1, c)
    \/ \E c \in Ctx : LoopErr(1, c)
    \/ \E c \in Ctx : LoopRecv(1, c)
    \/ \E c \in Ctx : LoopChanClosed(1, c)
    \/ \E c \in Ctx : LoopBegin(1, c)
    \/ \E c \in Ctx : LockOk(1, c)
    \/ \E c \in Ctx : LockFail(1, c)
    \/ \E c \in Ctx : ProcessTx(1, c)
    \/ \E c \in Ctx, ok \in BOOLEAN : PublishReturn(1, c, ok)
    \/ \E c \in Ctx : Unlock(1, c)
    \/ \E c \in Ctx : LoopDone(1, c)

\* the lifecycle in which every Lock, Publish and Unlock call returns and a
\* Stop whose wait is over returns
SpecLive ==
    /\ Init /\ [][NextLive]_vars
    /\ WF_vars(BlockStep)
    /\ \A t \in Threads : WF_vars(StopWait(1, t))

\* a Stop is waiting on the drain barrier while a block is in flight
StopWaitsFor(t) == pc[1][t] = "stop_wait" /\ wg[1] > 0

\* C32: a Stop returns once the calls of the block in flight have returned;
\* until then it does not return, whatever happens to the context it was
\* given, and no other caller can get through Start, Stop or IsRunning
C32_StopWaitsForCollaborators ==
    /\ \A t \in Threads : (pc[1][t] = "stop_wait") ~> (pc[1][t] = "idle")
    /\ [](\A t \in Threads :
              StopWaitsFor(t) =>
                  /\ ~ENABLED StopWait(1, t)
                  /\ \A u \in Threads \ {t} :
                         /\ ~ENABLED StartSet(1, u)
                         /\ ~ENABLED StopCancel(1, u)
                         /\ ~ENABLED IsRunning(1, u))

\* a Stop waits for a Publish in flight while the other caller is inside a
\* Start that found the flag false
C32_Witness ==
    /\ StopWaitsFor("t1")
    /\ \E c \in Ctx : loop[1][c].pc = "publish"
    /\ pc[1]["t2"] = "s_set"

\* ------------------------------------------------------------------ C33
\* one caller of Start, Stop and IsRunning whose Start contexts end at any
\* time, with the ceiling of the monitor context
NextCaller ==
    \/ NextSeq
    \/ \E c \in Ctx : CtxTimeout(1, c)
    \/ \E c \in Ctx : StartCtxDone(1, c)

SpecCaller == Init /\ [][NextCaller]_vars

\* C33: the end of the context passed to Start changes neither the running
\* flag nor any monitor context, feed or loop; a monitor context is done only
\* by a step of Stop or of its own ceiling, the flag changes only in Start and
\* Stop, and a loop leaves its select only on a done monitor context, a stream
\* error or a closed block channel
C33_StartCtxHasNoEffect ==
    [][/\ startCtx'[1].done # startCtx[1].done =>
             UNCHANGED <<isRunning, cancelFunc, ctxDone, loop, feed, blockChan,
                         errChan, wg, published>>
       /\ ctxDone'[1] # ctxDone[1] =>
             \/ StopCancel(1, "t1")
             \/ \E c \in Ctx : CtxTimeout(1, c)
       /\ isRunning'[1] # isRunning[1] =>
             StartSet(1, "t1") \/ StopCancel(1, "t1")
       /\ \A c \in Ctx :
             loop[1][c].pc \notin Exited /\ loop'[1][c].pc \in Exited =>
                 \/ LoopCancelled(1, c)
                 \/ LoopErr(1, c)
                 \/ LoopChanClosed(1, c)]_vars

\* the Start context of a running loop has ended; the loop is publishing a
\* block, the flag is set and its monitor context is live
C33_Witness ==
    \E c \in startCtx[1].done :
        /\ loop[1][c].pc = "publish"
        /\ isRunning[1]
        /\ c \notin ctxDone[1]

\* ------------------------------------------------------------------ C34
\* the loop of the stored handle has exited and the flag is still set
LoopGone ==
    /\ isRunning[1]
    /\ cancelFunc[1] # 0
    /\ loop[1][cancelFunc[1]].pc \in Exited

\* the step is the first step of a Start call of the caller
StartCalled ==
    /\ pc[1]["t1"] = "idle"
    /\ pc'[1]["t1"] = "s_set" \/ lastRet'[1].op \in {"start_noop", "start_done"}

\* a loop that an earlier Stop cancelled and that has not left its select yet
Lingering(c) == c < cancelFunc[1] /\ c \in ctxDone[1]

\* C34: once the loop has exited with the flag still set, no context has been
\* created since, no loop is alive but one an earlier Stop cancelled, a Start
\* call returns at once as a no-op and makes no subscription, and no
\* transaction is published for the current subscription; a Start call after
\* a Stop (flag clear) creates a new context, which is subscribed and gets a
\* loop of its own before Start returns
C34_StartAfterLoopExit ==
    /\ [](LoopGone =>
             /\ nctx[1] = cancelFunc[1]
             /\ pc[1]["t1"] = "idle"
             /\ \A c \in Ctx : loop[1][c].pc \in Alive => Lingering(c))
    /\ [][/\ LoopGone /\ StartCalled =>
                /\ lastRet'[1] = Ret("t1", "start_noop")
                /\ UNCHANGED <<nctx, feed, loop, isRunning, cancelFunc>>
          /\ LoopGone /\ published' # published =>
                \E c \in Ctx : Lingering(c) /\ loop[1][c].pc \in InProcessBlock
          /\ ~isRunning[1] /\ StartCalled =>
                /\ nctx'[1] = nctx[1] + 1
                /\ myCtx'[1]["t1"] = nctx'[1]
                /\ feed[1][nctx'[1]] = "none"
          /\ lastRet'[1] = Ret("t1", "start_done") =>
                /\ feed[1][myCtx[1]["t1"]] \in {"run", "closed"}
                /\ loop'[1][myCtx[1]["t1"]].pc = "select"
                /\ isRunning[1] /\ cancelFunc[1] = myCtx[1]["t1"]]_vars

\* the first loop ended on a stream error or a closed channel with the flag
\* set; after a Stop and a Start the loop of the second subscription is
\* publishing a transaction
C34_Witness ==
    /\ loop[1][1].pc \in {"exit_err", "exit_closed"}
    /\ 1 \notin ctxDone[1] \/ loop[1][1].pc = "exit_err"
    /\ isRunning[1]
    /\ cancelFunc[1] = 2
    /\ loop[1][2].pc = "publish"

\* ------------------------------------------------------------------ C35
\* C35: on every lock object whose last Lock succeeded, a key that has since
\* been passed to Unlock with a live context is no longer held by that
\* object
C35_UnlockReleasesItsKey ==
    \A i \in Inst :
        lk[i].lastLock = "nil" =>
            \A k \in lk[i].unlocked : redis[k] = NoTok \/ redis[k][1] # i

\* ------------------------------------------------------------------ C36
\* C36: when processBlock has returned after a successful Lock, the key of
\* its block no longer holds the value of that Lock, and in the state in which
\* Stop returns no key holds a value stored by this instance
C36_NoBlockLockAfterStop ==
    /\ \A c \in Ctx :
           ReturnedLocked(c) => redis[LockKey(loop[1][c].blk.Hash)] # <<1, c>>
    /\ lastRet[1] = Ret("t1", "stop_done") =>
           \A k \in Keys : redis[k] = NoTok \/ redis[k][1] # 1

\* ------------------------------------------------------------------ C37
\* C37: while no write call holds the lock, an address is in the map if and
\* only if the last returned write call naming it was an AddAddresses (never
\* named: not in the map), and the slice a GetWatchedAddresses call has
\* returned holds exactly the addresses last named by an AddAddresses at that
\* moment, each once
C37_WatchedIffLastAdded ==
    /\ wmu[1].w = "" =>
           \A a \in Addr : IsWatched(1, a) <=> wlast[1][a] = "Add"
    /\ \A k \in Clients :
           (wcall[1][k].pc = "idle" /\ wcall[1][k].op = "Get") =>
               /\ Elems(wcall[1][k].slice) = wcall[1][k].named
               /\ Len(wcall[1][k].slice) = Cardinality(wcall[1][k].named)

\* the last write call naming a1 was an add and the last naming a2 a remove;
\* GetWatchedAddresses has returned the slice with a1 alone
C37_Witness ==
    \E k \in Clients :
        /\ wcall[1][k].pc = "idle" /\ wcall[1][k].op = "Get"
        /\ wcall[1][k].slice = <<"a1">>
        /\ wlast[1]["a1"] = "Add" /\ wlast[1]["a2"] = "Remove"
        /\ wmu[1].w = ""

\* ------------------------------------------------------------------ C38
\* The server with the monitor it serves: caller t1 is StartServer, whose
\* one call is the Stop of line 268, and caller t2 is the handler goroutine
\* of start requests.

\* the process has not ended: StartServer has neither returned nor exited
ProcessUp == srv.pc \in {"serving", "in_stop", "in_shutdown"}

\* lines 268-273 with Stop lines 192-196: the Stop that StartServer called
\* finds the barrier at zero, releases m.mu and returns nil, and
\* srv.Shutdown(ctx) is called, which closes the listeners
ServerStopReturnsNil ==
    /\ srv.pc = "in_stop"
    /\ pc[1]["t1"] = "stop_wait"
    /\ wg[1] = 0
    /\ mu' = [mu EXCEPT ![1] = ""]
    /\ pc' = [pc EXCEPT ![1]["t1"] = "idle"]
    /\ Returns(1, "t1", "stop_done")
    /\ srv' = [pc |-> "in_shutdown",
               log |-> srv.log \o <<"Stop returned nil", "Shutdown">>]
    /\ UNCHANGED <<isRunning, cancelFunc, wg, nctx, ctxDone, myCtx, loop, feed,
                   blockChan, errChan, delivered, watchedAddresses, redis, lmutex,
                   calls, published, startRet, drainOwner, wmu, wcall, wlast,
                   pay, http, lk, sub, startCtx>>

\* http.Server.Shutdown returns nil once no handler is running, or the error
\* of its 30 s context before that
ServerShutdownDone(err) ==
    /\ err = "nil" => pc[1]["t2"] = "idle"
    /\ ServerShutdownReturn(err)

\* the server from StartServer to its return, the monitor it stops, and the
\* start requests it serves while its listeners are open
NextShutdown ==
    \/ StartServer
    \/ ServerListenError
    \/ ServerSignal
    \/ srv.pc = "in_stop" /\ StopCancel(1, "t1")
    \/ ServerStopReturnsNil
    \/ \E err \in Errors : ServerShutdownDone(err)
    \/ srv.pc \in Listening /\ StartCheck(1, "t2")
    \/ ProcessUp /\ StartSet(1, "t2")
    \/ ProcessUp /\ StartSubscribe(1, "t2")
    \/ ProcessUp /\ StartSpawn(1, "t2")
    \/ ProcessUp /\ \E c \in Ctx, b \in LifeBlocks : FeedDeliver(1, c, b)
    \/ ProcessUp /\ \E c \in Ctx : FeedError(1, c)
    \/ ProcessUp /\ \E c \in Ctx : FeedCtxDone(1, c)
    \/ ProcessUp /\ \E c \in Ctx : LoopCancelled(1, c)
    \/ ProcessUp /\ \E c \in Ctx : LoopErr(1, c)
    \/ ProcessUp /\ \E c \in Ctx : LoopRecv(1, c)
    \/ ProcessUp /\ \E c \in Ctx : LoopChanClosed(1, c)
    \/ ProcessUp /\ \E c \in Ctx : LoopBegin(1, c)
    \/ ProcessUp /\ \E c \in Ctx : LockOk(1, c)
    \/ ProcessUp /\ \E c \in Ctx : LockFail(1, c)
    \/ ProcessUp /\ \E c \in Ctx : ProcessTx(1, c)
    \/ ProcessUp /\ \E c \in Ctx, ok \in BOOLEAN : PublishReturn(1, c, ok)
    \/ ProcessUp /\ \E c \in Ctx : Unlock(1, c)
    \/ ProcessUp /\ \E c \in Ctx : LoopDone(1, c)
    \/ \E k \in Keys : LeaseExpire(k)

SpecShutdown == Init /\ [][NextShutdown]_vars

\* C38: when StartServer has returned after a signal, the running flag is
\* clear and every ingestion loop that is still alive has a cancelled context
C38_NotRunningAfterShutdown ==
    (srv.pc = "returned" /\ At("signal") # {}) =>
        /\ ~isRunning[1]
        /\ \A c \in LiveLoops(1) : c \in ctxDone[1]
====
